---- MODULE Spec2Model ----
(***************************************************************************)
(* Byte-stream decompressors of packages/utils (Lzss.ts, Lz4.ts, Lzo.ts).  *)
(* Every decoder is a synchronous function over an input byte buffer; it   *)
(* is modelled as a state machine whose steps are the iterations of the    *)
(* decoder's loops.  The input buffer is supplied by the environment: a    *)
(* byte is fixed at the moment the decoder first reads it and is then kept *)
(* in the buffer variable, so the parsing code always runs on real bytes.  *)
(* JavaScript's number semantics are kept: a read past the end of an array *)
(* is `undefined`, arithmetic on it is NaN, bitwise operators turn both    *)
(* into 0, and a typed array stores both as 0.                              *)
(***************************************************************************)
EXTENDS Integers, Sequences, FiniteSets, TLC

VARIABLES
    \* ---- lzssDecompress (Lzss.ts) ----
    input,              \* the input buffer, as far as it has been read
    inputEnd,           \* TRUE once the buffer is known to end at Len(input)
    inputOffset,        \* parameter
    useSignedChecksum,  \* parameter
    declaredSize,       \* parameter expectedSize as passed (= dst.length)
    expectedSize,       \* the local the loop counts down
    lzssPc,             \* "start", "loop", "done"
    lzssResult,         \* "none", "empty", "ok", "overflow", "checksum", "range"
    inPos, iDst, dst, calculatedChecksum, r, buffer, flags,
    bytesRead,          \* the bytesRead of the returned object
    lzssLog,            \* history: what the tokens did (not program state)
    \* ---- decompressLz4Block (Lz4.ts) ----
    rdBuffer,           \* reader.buffer, as far as it has been read
    rdEnd,              \* TRUE once the buffer is known to end at Len(rdBuffer)
    rdPos,              \* reader.position
    startPos, blockSize4, \* startPos; the parameter declaredSize (read at line 63)
    targetSize, target, targetIdx, dict, dictSize,
    chunkFlags,         \* flags of the chunk header read last (Undef before the first)
    lz4Pc,              \* "start", "chunk", "finish", "done"
    lz4Result,          \* "none", "ok", "range", "flags", "offset", "overrun", "length", "size"
    lz4Log,             \* history: the chunks decoded (not program state)
    \* ---- lzoDecompress, lzoDecompressWithSize (Lzo.ts) ----
    lzoSrc,             \* parameter src
    lzoExpectedSize,    \* parameter expectedSize
    lzoWithSize,        \* TRUE when the call is lzoDecompressWithSize
    lzo,                \* the LZO object of the call: its private fields
    lzoPc,              \* "start", "main", "afterLiteral", "match", "returned", "done"
    lzoResult,          \* "none", "ok", "mismatch"
    lzoReturned,        \* what the call returned, << >> when nothing
    \* ---- Bc7Block.decode (bc7.ts) ----
    bc7Data,            \* the 16 bytes of the block
    bc7Pc,              \* "start", "texels", "done"
    bc7,                \* the locals of decode(): type, numSubsets, ..., i
    bc7Output,          \* output, the 64 bytes of the 16 texels
    bc7Log,             \* history: the raw endpoints, the subset of each texel
    \* ---- decodeBC1, decodeBC2, decodeBC3, decodeBC4, decodeBC7 ----
    bcnCall,            \* the call: format, data, width, height, useAlpha, channel
    bcn,                \* the locals blocksX, blocksY, by, bx, offset
    rgba,               \* rgba, the buffer the call returns
    bcnPc,              \* "start", "blocks", "done"
    bcnResult,          \* "none", "ok", "range"
    bcnLog,             \* history: the stores into each byte, the visits of each texel
    \* ---- Edds (Edds.ts) ----
    edds,               \* the fields of the Edds object
    eddsResult,         \* the last call on it and its outcome; history: the reads so far
    \* ---- a caller that calls a decoder, then another, then the first again ----
    calls               \* which call is running; the first call's arguments and result

lzssVars == <<input, inputEnd, inputOffset, useSignedChecksum, declaredSize,
              expectedSize, lzssPc, lzssResult, inPos, iDst, dst,
              calculatedChecksum, r, buffer, flags, bytesRead, lzssLog>>

lz4Vars == <<rdBuffer, rdEnd, rdPos, startPos, blockSize4, targetSize, target,
             targetIdx, dict, dictSize, chunkFlags, lz4Pc, lz4Result, lz4Log>>

lzoVars == <<lzoSrc, lzoExpectedSize, lzoWithSize, lzo, lzoPc, lzoResult,
             lzoReturned>>

bc7Vars == <<bc7Data, bc7Pc, bc7, bc7Output, bc7Log>>

bcnVars == <<bcnCall, bcn, rgba, bcnPc, bcnResult, bcnLog>>

eddsVars == <<edds, eddsResult>>

\* the texture decoders
imgVars == <<bc7Vars, bcnVars, eddsVars>>

\* the byte stream decoders
codecVars == <<lzssVars, lz4Vars, lzoVars>>

notBc7Vars == <<codecVars, bcnVars, eddsVars, calls>>

notBcnVars == <<codecVars, bc7Vars, eddsVars, calls>>

notEddsVars == <<codecVars, bc7Vars, bcnVars, calls>>

notLzssVars == <<lz4Vars, lzoVars, imgVars, calls>>

notLz4Vars == <<lzssVars, lzoVars, imgVars, calls>>

notLzoVars == <<lzssVars, lz4Vars, imgVars, calls>>

vars == <<codecVars, imgVars, calls>>

\* ------------------------------------------------------------------------
\* JavaScript values
\* ------------------------------------------------------------------------
\* `undefined` and NaN, as two values that are no byte and no count
\* (bytes, lengths and cursors of the decoders are never negative)
Undef == -1
NaN == -2

\* ToInt32 of the bitwise operators: undefined and NaN become 0
ToInt(x) == IF x = Undef \/ x = NaN THEN 0 ELSE x

\* (a + d) | 0 for a 32-bit a and a byte-sized d: the sum wrapped to a signed
\* 32-bit integer (written so that no intermediate value leaves 32 bits)
Add32(a, d) ==
    IF d >= 0 /\ a > 2147483647 - d
    THEN ((a - 2147483647) + (d - 1)) + (-2147483647) - 1
    ELSE IF d < 0 /\ a < (-2147483647) - 1 - d
    THEN (((a + 2147483647) + 1) + d) + 2147483647 + 1
    ELSE a + d

\* (c << 24 >> 24): the low byte, sign-extended
SignExtend8(c) == LET b == ToInt(c) % 256 IN IF b >= 128 THEN b - 256 ELSE b

\* storing a value in a Uint8Array element
ToUint8(c) == ToInt(c) % 256

\* array[i] for a 0-based index into a sequence: undefined outside it
At(s, i) == IF i >= 0 /\ i < Len(s) THEN s[i + 1] ELSE Undef

Prefix(s, n) == SubSeq(s, 1, n)

\* the environment's next bytes: every candidate, and every cut of one
\* (a cut means the buffer ends there)
Cuts(S) == UNION {{Prefix(s, n) : n \in 0..Len(s)} : s \in S}

\* ------------------------------------------------------------------------
\* Bounds of the model
\* ------------------------------------------------------------------------
MaxExpected == 6
MaxOffset == 1
MaxTokens == 3

\* ------------------------------------------------------------------------
\* LZSS
\* ------------------------------------------------------------------------
N == 4096
F == 18
THRESHOLD == 2

\* bytes the environment offers at each place of the stream
FlagBytes == {0, 255, 2}
LitBytes == {65, 255}
OffsetBytes == {0, 1, 255}
LengthBytes == {0, 15, 241}

\* the running checksum after one more output byte (lines 51 and 74)
AddChecksum(sum, c, signed) ==
    IF signed THEN Add32(sum, SignExtend8(c))
    ELSE IF c = Undef THEN 0          \* (n + undefined) | 0  =  NaN | 0
    ELSE Add32(sum, c)

\* calculateChecksum: the byte sum of a Uint8Array
RECURSIVE calculateChecksum(_, _)
calculateChecksum(data, signed) ==
    IF data = <<>> THEN 0
    ELSE AddChecksum(calculateChecksum(Prefix(data, Len(data) - 1), signed),
                     data[Len(data)], signed)

\* a DataView read of n bytes at pos throws a RangeError unless they are there
InView(inp, pos, n) == pos >= 0 /\ pos + n <= Len(inp)

\* DataView.getInt32(pos, true)
GetInt32(inp, pos) ==
    LET b3 == inp[pos + 4]
    IN  inp[pos + 1] + 256 * inp[pos + 2] + 65536 * inp[pos + 3]
        + 16777216 * (IF b3 >= 128 THEN b3 - 256 ELSE b3)

\* the four little-endian bytes of a 32-bit value (environment side only)
Bytes32(v) ==
    <<v % 256, (v \div 256) % 256, (v \div 65536) % 256, (v \div 16777216) % 256>>

\* The ring `buffer` is kept as the cells assigned by the loop (a function
\* from cell index to value); every other cell still holds what lines 22 and
\* 36-39 left there: a space in the first N - F cells, nothing (an array
\* hole, read as undefined) in the rest.
InitialBuffer(i) == IF i < N - F THEN 32 ELSE Undef

BufferAt(b, i) == IF i \in DOMAIN b THEN b[i] ELSE InitialBuffer(i)

BufferSet(b, i, c) == (i :> c) @@ b

\* lines 43-46: shift the flag register, refill it when bit 8 is clear
Refill(inp, st) ==
    LET f == st.flags \div 2
    IN  IF (f \div 256) % 2 = 0
        THEN [st EXCEPT !.flags = ToInt(At(inp, st.inPos)) + 65280,
                        !.inPos = st.inPos + 1,
                        !.nFlag = st.nFlag + 1]
        ELSE [st EXCEPT !.flags = f]

\* a store into dst (a Uint8Array of declaredSize cells; a store outside is dropped)
StoreDst(d, i, c) == IF i < Len(d) THEN [d EXCEPT ![i + 1] = ToUint8(c)] ELSE d

\* lines 50-57
Literal(inp, st) ==
    LET c == At(inp, st.inPos)
    IN  [st EXCEPT !.inPos = st.inPos + 1,
                   !.calculatedChecksum = AddChecksum(st.calculatedChecksum, c, st.signed),
                   !.dst = StoreDst(st.dst, st.iDst, c),
                   !.iDst = st.iDst + 1,
                   !.expectedSize = st.expectedSize - 1,
                   !.buffer = BufferSet(st.buffer, st.r, c),
                   !.r = (st.r + 1) % N,
                   !.nLit = st.nLit + 1]

\* lines 72-83: the copy loop, for (; ii <= jj; ii++)
RECURSIVE CopyLoop(_, _, _)
CopyLoop(st, ii, jj) ==
    IF ii > jj THEN st
    ELSE LET c == BufferAt(st.buffer, ii % N)
         IN  CopyLoop(
                [st EXCEPT !.calculatedChecksum = AddChecksum(st.calculatedChecksum, c, st.signed),
                           !.dst = StoreDst(st.dst, st.iDst, c),
                           !.iDst = st.iDst + 1,
                           !.expectedSize = st.expectedSize - 1,
                           !.buffer = BufferSet(st.buffer, st.r, c),
                           !.r = (st.r + 1) % N,
                           !.fresh = IF (ii % N) \in DOMAIN st.buffer THEN st.fresh
                                     ELSE st.fresh \cup {ToUint8(c)}],
                ii + 1, jj)

\* line 65
Overflow(length, expected) == length + 1 > expected + length - THRESHOLD

\* lines 60-83
Match(inp, st) ==
    LET i == At(inp, st.inPos)
        j == At(inp, st.inPos + 1)
        offset == ToInt(i) + ((ToInt(j) \div 16) * 16) * 16
        length == (ToInt(j) % 16) + THRESHOLD
        s1 == [st EXCEPT !.inPos = st.inPos + 2, !.nMatch = st.nMatch + 1,
                         !.lastCount = length + 1, !.lastLeft = st.expectedSize]
    IN  IF Overflow(length, st.expectedSize)
        THEN [s1 EXCEPT !.result = "overflow"]
        ELSE CopyLoop(s1, st.r - offset, length + (st.r - offset))

\* history: a token begins at st.inPos, with or without a flag byte before
\* it, and is taken as a literal (kind 1) or as a back-reference (kind 0)
Traced(st, s1, kind) ==
    [s1 EXCEPT !.tokens = Append(@, [at |-> st.inPos, flag |-> s1.nFlag > st.nFlag,
                                     kind |-> kind, iDst |-> st.iDst, r |-> st.r])]

\* a set flag bit taken as a back-reference, a clear one as a literal
TokenOfInvertedFlag(inp, st) ==
    LET s1 == Refill(inp, st)
    IN  IF s1.flags % 2 = 0
        THEN Literal(inp, Traced(st, s1, 1))
        ELSE Match(inp, Traced(st, s1, 0))

\* one iteration of the while loop, lines 42-85
Token(inp, st) ==
    LET s1 == Refill(inp, st)
    IN  IF s1.flags % 2 # 0
        THEN Literal(inp, Traced(st, s1, 1))
        ELSE Match(inp, Traced(st, s1, 0))

\* the locals of the call as a record
LzssState ==
    [flags |-> flags, inPos |-> inPos, iDst |-> iDst, dst |-> dst,
     calculatedChecksum |-> calculatedChecksum, r |-> r, buffer |-> buffer,
     expectedSize |-> expectedSize, signed |-> useSignedChecksum,
     result |-> "none",
     nFlag |-> lzssLog.nFlag, nLit |-> lzssLog.nLit, nMatch |-> lzssLog.nMatch,
     fresh |-> lzssLog.fresh, tokens |-> lzssLog.tokens,
     lastCount |-> 0, lastLeft |-> 0]

LzssTokenBytes ==
    LET fl == IF ((flags \div 2) \div 256) % 2 = 0
              THEN {<<f>> : f \in FlagBytes} ELSE {<<>>}
        tk == {<<c>> : c \in LitBytes} \cup {<<i, j>> : i \in OffsetBytes, j \in LengthBytes}
    IN  {f \o t : f \in fl, t \in tk}

\* the LZ4 variables while another decoder is the one called
Lz4Idle ==
    /\ rdBuffer = <<>> /\ rdEnd = FALSE /\ rdPos = 0 /\ startPos = 0
    /\ blockSize4 = 0 /\ targetSize = 0 /\ target = <<>> /\ targetIdx = 0
    /\ dict = <<>> /\ dictSize = 0 /\ chunkFlags = Undef
    /\ lz4Pc = "idle" /\ lz4Result = "none" /\ lz4Log = <<>>

\* the LZO variables while another decoder is the one called
LzoIdle ==
    /\ lzoSrc = <<>> /\ lzoExpectedSize = 0 /\ lzoWithSize = FALSE
    /\ lzo = <<>> /\ lzoPc = "idle" /\ lzoResult = "none"
    /\ lzoReturned = <<>>

\* the BC7 block variables while another decoder is the one called
Bc7Idle ==
    /\ bc7Data = <<>> /\ bc7Pc = "idle" /\ bc7 = <<>>
    /\ bc7Output = <<>> /\ bc7Log = <<>>

\* the image decoders' variables while another decoder is the one called
BcnIdle ==
    /\ bcnCall = <<>> /\ bcn = <<>> /\ rgba = <<>>
    /\ bcnPc = "idle" /\ bcnResult = "none" /\ bcnLog = <<>>

\* the Edds variables while no Edds object is in use
EddsIdle ==
    /\ edds = <<>> /\ eddsResult = <<>>

\* the texture decoders' variables while a byte stream decoder is the one called
ImgIdle ==
    /\ Bc7Idle
    /\ BcnIdle
    /\ EddsIdle

\* the caller is in its first call of a decoder and has kept nothing yet
NoCalls == [n |-> 1, who |-> "none", between |-> "none", args |-> <<>>, first |-> <<>>]

\* lines 38-40 of Lzss.ts are reached with nothing decoded (history)
NoTokens ==
    [nFlag |-> 0, nLit |-> 0, nMatch |-> 0, fresh |-> {}, tokens |-> <<>>,
     lastCount |-> 0, lastLeft |-> 0]

LzssInit ==
    /\ Lz4Idle
    /\ LzoIdle
    /\ ImgIdle
    /\ calls = NoCalls
    /\ inputOffset \in 0..MaxOffset
    /\ input = [k \in 1..inputOffset |-> 0]
    /\ inputEnd = FALSE
    /\ useSignedChecksum \in BOOLEAN
    /\ declaredSize \in 0..MaxExpected
    /\ expectedSize = declaredSize
    /\ lzssPc = "start"
    /\ lzssResult = "none"
    /\ inPos = 0 /\ iDst = 0 /\ dst = <<>> /\ calculatedChecksum = 0
    /\ r = 0 /\ buffer = <<>> /\ flags = 0 /\ bytesRead = 0
    /\ lzssLog = NoTokens

\* lines 22-41
LzssStart ==
    /\ lzssPc = "start"
    /\ IF expectedSize <= 0
       THEN /\ lzssPc' = "done" /\ lzssResult' = "empty"
            /\ dst' = <<>> /\ bytesRead' = 0
            /\ UNCHANGED <<inPos, iDst, calculatedChecksum, r, buffer, flags>>
       ELSE /\ lzssPc' = "loop"
            /\ dst' = [k \in 1..expectedSize |-> 0]
            /\ inPos' = inputOffset
            /\ iDst' = 0
            /\ calculatedChecksum' = 0
            /\ r' = N - F
            /\ buffer' = <<>>
            /\ flags' = 0
            /\ UNCHANGED <<lzssResult, bytesRead>>
    /\ lzssLog' = NoTokens
    /\ UNCHANGED <<input, inputEnd, inputOffset, useSignedChecksum, declaredSize,
                   expectedSize>>
    /\ UNCHANGED notLzssVars

\* one token, lines 42-85, of a call that decodes at most limit tokens from
\* the bytes the environment offers
LzssTokenOf(limit, offers) ==
    /\ lzssPc = "loop"
    /\ expectedSize > 0
    /\ lzssLog.nLit + lzssLog.nMatch < limit
    /\ \E e \in (IF inputEnd THEN {<<>>} ELSE offers) :
         LET inp == input \o e
             st == Token(inp, LzssState)
         IN  /\ \/ st.inPos = Len(inp) /\ inputEnd' = inputEnd
                \/ st.inPos > Len(inp) /\ inputEnd' = TRUE
                \/ st.inPos < Len(inp) /\ inputEnd /\ inputEnd' = TRUE
             /\ input' = inp
             /\ flags' = st.flags /\ inPos' = st.inPos /\ iDst' = st.iDst
             /\ dst' = st.dst /\ calculatedChecksum' = st.calculatedChecksum
             /\ r' = st.r /\ buffer' = st.buffer /\ expectedSize' = st.expectedSize
             /\ lzssResult' = st.result
             /\ lzssPc' = IF st.result = "none" THEN "loop" ELSE "done"
             /\ lzssLog' = [nFlag |-> st.nFlag, nLit |-> st.nLit, nMatch |-> st.nMatch,
                            fresh |-> st.fresh, tokens |-> st.tokens,
                            lastCount |-> st.lastCount, lastLeft |-> st.lastLeft]
    /\ UNCHANGED <<inputOffset, useSignedChecksum, declaredSize, bytesRead>>
    /\ UNCHANGED notLzssVars

\* one token: lines 42-85
LzssToken == LzssTokenOf(MaxTokens, Cuts(LzssTokenBytes))

\* the trailers the environment offers: the decoder's own sum, the byte sum of
\* the returned data, a value next to it, and a buffer that ends too early
LzssTrailers ==
    {Bytes32(v) : v \in {calculatedChecksum, calculatedChecksum + 1,
                         calculateChecksum(dst, useSignedChecksum)}}
    \cup {Prefix(Bytes32(calculatedChecksum), n) : n \in {0, 3}}

\* a byte count taken from the start of the buffer
BytesReadFromBufferStart(pos, start) == pos

\* line 98: bytesRead: inPos - startPos
BytesRead(pos, start) == pos - start

\* lines 87-99
LzssChecksum ==
    /\ lzssPc = "loop"
    /\ expectedSize <= 0
    /\ \E e \in (IF inputEnd THEN {<<>>} ELSE LzssTrailers) :
         LET inp == input \o e
             checksum == GetInt32(inp, inPos)
         IN  /\ input' = inp
             /\ inputEnd' = (inputEnd \/ Len(e) < 4)
             /\ IF ~InView(inp, inPos, 4)
                THEN lzssResult' = "range" /\ UNCHANGED <<inPos, bytesRead>>
                ELSE /\ inPos' = inPos + 4
                     /\ IF checksum # calculatedChecksum
                        THEN lzssResult' = "checksum" /\ UNCHANGED bytesRead
                        ELSE lzssResult' = "ok" /\ bytesRead' = BytesRead(inPos', inputOffset)
    /\ lzssPc' = "done"
    /\ UNCHANGED <<inputOffset, useSignedChecksum, declaredSize, expectedSize,
                   iDst, dst, calculatedChecksum, r, buffer, flags, lzssLog>>
    /\ UNCHANGED notLzssVars

LzssNext == LzssStart \/ LzssToken \/ LzssChecksum

SpecLzss == LzssInit /\ [][LzssNext]_vars

\* ------------------------------------------------------------------------
\* lzssDecompress on longer streams: more than two flag bytes, and enough
\* output for the ring cursor to wrap; the bytes offered are few

MaxLongExpected == 20
MaxLongTokens == 20

\* flag bytes: eight literals, eight back-references, and a mix (10100101)
LongFlagBytes == {255, 0, 165}

\* a literal that changes along the output, and two back-references: 3 bytes
\* from offset 1 (the copy reads what it has just written), 4 from offset 3
LongTokenBytes ==
    LET fl == IF ((flags \div 2) \div 256) % 2 = 0
              THEN {<<f>> : f \in LongFlagBytes} ELSE {<<>>}
        tk == {<<65 + (iDst % 5)>>, <<1, 0>>, <<3, 1>>}
    IN  {f \o t : f \in fl, t \in tk}

LzssLongInit ==
    /\ Lz4Idle
    /\ LzoIdle
    /\ ImgIdle
    /\ calls = NoCalls
    /\ inputOffset \in 0..MaxOffset
    /\ input = [k \in 1..inputOffset |-> 0]
    /\ inputEnd = FALSE
    /\ useSignedChecksum \in BOOLEAN
    /\ declaredSize \in {1, 9, MaxLongExpected - 1, MaxLongExpected}
    /\ expectedSize = declaredSize
    /\ lzssPc = "start"
    /\ lzssResult = "none"
    /\ inPos = 0 /\ iDst = 0 /\ dst = <<>> /\ calculatedChecksum = 0
    /\ r = 0 /\ buffer = <<>> /\ flags = 0 /\ bytesRead = 0
    /\ lzssLog = NoTokens

LzssLongToken == LzssTokenOf(MaxLongTokens, LongTokenBytes)

LzssLongNext == LzssStart \/ LzssLongToken \/ LzssChecksum

SpecLzssLong == LzssLongInit /\ [][LzssLongNext]_vars

\* the place in the input of the flag byte that was read last before token m
\* (the tokens counted from 1)
FlagPlaceOf(m) == lzssLog.tokens[8 * ((m - 1) \div 8) + 1].at

\* the bytes token m took from the input: its flag byte if it has one, then
\* one byte for a literal and two for a back-reference
BytesOfToken(m) ==
    (IF lzssLog.tokens[m].flag THEN 1 ELSE 0) + (IF lzssLog.tokens[m].kind = 1 THEN 1 ELSE 2)

\* C24: lzssDecompress reads a flag byte before the tokens 0, 8, 16, ... and
\* before no other token; token number 8 * q + k is a literal of one byte
\* when bit k (the least significant is bit 0) of the flag byte read before
\* token 8 * q is 1, and a back-reference of two bytes when it is 0.
C24_OneFlagByteForEightTokens ==
    lzssPc \in {"loop", "done"} =>
        /\ lzssLog.nFlag = (Len(lzssLog.tokens) + 7) \div 8
        /\ \A m \in 1..Len(lzssLog.tokens) :
              /\ lzssLog.tokens[m].flag = ((m - 1) % 8 = 0)
              /\ FlagPlaceOf(m) < Len(input) =>
                    lzssLog.tokens[m].kind =
                        (input[FlagPlaceOf(m) + 1] \div (2 ^ ((m - 1) % 8))) % 2
              /\ m < Len(lzssLog.tokens) =>
                    lzssLog.tokens[m + 1].at = lzssLog.tokens[m].at + BytesOfToken(m)
              /\ (m = Len(lzssLog.tokens) /\ lzssPc = "loop") =>
                    inPos = lzssLog.tokens[m].at + BytesOfToken(m)

\* a call has returned after 17 tokens or more, the third flag byte being
\* 10100101: token 16 is a literal and token 17 a back-reference
C24_Witness ==
    /\ lzssPc = "done" /\ lzssResult = "ok"
    /\ Len(lzssLog.tokens) >= 18
    /\ input[FlagPlaceOf(17) + 1] = 165
    /\ lzssLog.tokens[17].kind = 1 /\ lzssLog.tokens[18].kind = 0

\* C25: in lzssDecompress, after k bytes have been produced the write cursor
\* of the ring is (4078 + k) mod 4096 and the cell j places behind the
\* cursor holds output byte k - j, for every j from 1 to min(k, 4096); so a
\* back-reference copies bytes of the output.  (Stated for the calls that
\* have read no byte beyond the end of the input.)
C25_RingMirrorsOutput ==
    (lzssPc = "loop" /\ inPos <= Len(input)) =>
        /\ r = (N - F + iDst) % N
        /\ \A j \in 1..iDst :
              (j <= N /\ iDst - j < Len(dst)) =>
                  BufferAt(buffer, (r - j) % N) = dst[iDst - j + 1]

\* the 4 bytes that follow the last consumed token, once they have been read
LzssTrailer == GetInt32(input, inPos - 4)

\* C1: a call with expectedSize > 0 that reaches the trailer returns normally
\* exactly when the trailing little-endian signed 32-bit integer equals the
\* wrapped byte sum of the returned data (signed or unsigned bytes, as asked);
\* otherwise it raises the checksum error.
C1_ChecksumOfReturnedData ==
    (lzssPc = "done" /\ declaredSize > 0 /\ lzssResult \in {"ok", "checksum"})
        => (lzssResult = "ok"
              <=> LzssTrailer = calculateChecksum(dst, useSignedChecksum))

\* C2: the bytes produced never exceed the declared expectedSize, and a
\* back-reference whose copy count exceeds the bytes still expected raises the
\* overflow error instead of copying.
C2_NeverMoreThanExpected ==
    /\ iDst <= declaredSize
    /\ lzssLog.lastCount > lzssLog.lastLeft => lzssResult = "overflow"

\* C3: before the first token all N ring cells hold a space, and every byte a
\* copy takes from a cell not yet written in this call is 0x20.
C3_RingPrefilledWithSpaces ==
    /\ (lzssPc = "loop" /\ lzssLog.nLit + lzssLog.nMatch = 0)
          => \A i \in 0..(N - 1) : BufferAt(buffer, i) = 32
    /\ lzssLog.fresh \subseteq {32}

\* ------------------------------------------------------------------------
\* LZ4 chain (Lz4.ts)
\* ------------------------------------------------------------------------
\* The window of the chain decoder.  Lz4.ts line 18 sets it to 65536; the
\* model runs the same code with a window of a few bytes, so that chunks fill
\* it, overflow it and shift it within the bounds of the check.
LzBlockSize == 6

\* bounds of the LZ4 runs
MaxTarget == 8
MaxChunks == 2

\* a + b on JavaScript numbers
JsAdd(a, b) == IF a \in {Undef, NaN} \/ b \in {Undef, NaN} THEN NaN ELSE a + b

\* a loop bound: `i < n` is false for every i when n is NaN
Count(n) == IF n \in {Undef, NaN} THEN 0 ELSE n

\* BinaryReader.readUInt32 (line 50-54), readInt24 (62-68), readByte (38-42):
\* the value read; each throws a RangeError unless InView holds
ReadUInt32(buf, pos) ==
    buf[pos + 1] + 256 * buf[pos + 2] + 65536 * buf[pos + 3] + 16777216 * buf[pos + 4]

\* a 24-bit value read with its sign: negative when bit 23 is set
ReadInt24Signed(buf, pos) ==
    IF buf[pos + 3] >= 128
    THEN buf[pos + 1] + 256 * buf[pos + 2] + 65536 * buf[pos + 3] - 16777216
    ELSE buf[pos + 1] + 256 * buf[pos + 2] + 65536 * buf[pos + 3]

ReadInt24(buf, pos) == buf[pos + 1] + 256 * buf[pos + 2] + 65536 * buf[pos + 3]

ReadByte(buf, pos) == buf[pos + 1]

\* BinaryReader.readBytes: subarray clamps to the end of the buffer
ReadBytes(buf, pos, count) ==
    LET last == IF pos + count < Len(buf) THEN pos + count ELSE Len(buf)
    IN  IF pos >= last THEN <<>> ELSE SubSeq(buf, pos + 1, last)

\* TypedArray.set(data, at)
SetAt(arr, data, at) ==
    [i \in 1..Len(arr) |-> IF i - 1 >= at /\ i - 1 < at + Len(data)
                           THEN data[i - at] ELSE arr[i]]

\* TypedArray.copyWithin(0, start)
CopyWithin(arr, start) ==
    [i \in 1..Len(arr) |-> IF i - 1 < Len(arr) - start THEN arr[i + start] ELSE arr[i]]

\* lines 89-93 and 110-114: do { len = compressed[src++]; total += len }
\* while (len === 255 && src < compressed.length)
RECURSIVE Lz4Length(_, _, _)
Lz4Length(compressed, src, total) ==
    LET len == At(compressed, src)
        sum == JsAdd(total, len)
    IN  IF len = 255 /\ src + 1 < Len(compressed)
        THEN Lz4Length(compressed, src + 1, sum)
        ELSE [len |-> sum, src |-> src + 1]

\* a faulty match copy: the dictionary is indexed from the end of the window
\* instead of from dictSize
RECURSIVE Lz4CopyMatchFromWindowEnd(_, _, _, _, _)
Lz4CopyMatchFromWindowEnd(d, dct, dctSize, offset, n) ==
    IF n = 0 THEN d
    ELSE LET backPos == Len(d.output) - offset
             c == IF backPos >= 0 THEN At(d.output, backPos)
                  ELSE At(dct, LzBlockSize + backPos)
             rd == [p |-> Len(d.output), offset |-> offset,
                    from |-> IF backPos >= 0 THEN "output" ELSE "dict",
                    idx |-> IF backPos >= 0 THEN backPos ELSE LzBlockSize + backPos,
                    byte |-> c]
         IN  CHOOSE e \in {Lz4CopyMatchFromWindowEnd(x, dct, dctSize, offset, n - 1) :
                            x \in {[d EXCEPT !.output = Append(@, c),
                                             !.reads = @ \cup {rd}]}} : TRUE

\* lines 129-139: the match copy, n bytes (the state after one byte is
\* worked out once, as the value x)
RECURSIVE Lz4CopyMatch(_, _, _, _, _)
Lz4CopyMatch(d, dct, dctSize, offset, n) ==
    IF n = 0 THEN d
    ELSE LET backPos == Len(d.output) - offset
             c == IF backPos >= 0 THEN At(d.output, backPos)
                  ELSE At(dct, dctSize + backPos)
             rd == [p |-> Len(d.output), offset |-> offset,
                    from |-> IF backPos >= 0 THEN "output" ELSE "dict",
                    idx |-> IF backPos >= 0 THEN backPos ELSE dctSize + backPos,
                    byte |-> c]
         IN  CHOOSE e \in {Lz4CopyMatch(x, dct, dctSize, offset, n - 1) :
                            x \in {[d EXCEPT !.output = Append(@, c),
                                             !.reads = @ \cup {rd}]}} : TRUE

\* a faulty offset check: only offset 0 is refused
InvalidOffsetZeroOnly(offset, dctSize, outLen) == offset = 0

\* lines 119-127: the two offset checks
InvalidOffset(offset, dctSize, outLen) == offset = 0 \/ offset > dctSize + outLen

\* lines 87-94 and 108-115: a length nibble, extended when it is 15
Lz4Nibble(compressed, src, nibble) ==
    IF nibble = 15 THEN Lz4Length(compressed, src, 15) ELSE [len |-> nibble, src |-> src]

\* lines 86-116: what one iteration of the token loop reads: the literals it
\* pushes, whether it then leaves the loop (line 101), the offset and the
\* length of its match.  lit and mat are the two lengths with the src after
\* them, src2 is src after the literals.
Lz4Fields(compressed, lit, src2, mat) ==
    [literals |-> [i \in 1..Count(lit.len) |-> At(compressed, lit.src + i - 1)],
     litSrc |-> lit.src,
     brk |-> src2 >= Len(compressed),
     src2 |-> src2,
     offset |-> ToInt(At(compressed, src2)) + 256 * ToInt(At(compressed, src2 + 1)),
     matchLength |-> JsAdd(mat.len, 4),
     next |-> mat.src]

Lz4AfterLiterals(compressed, token, lit) ==
    Lz4Fields(compressed, lit, lit.src + Count(lit.len),
              Lz4Nibble(compressed, lit.src + Count(lit.len) + 2, token % 16))

Lz4Parse(compressed, src) ==
    Lz4AfterLiterals(compressed, compressed[src + 1],
                     Lz4Nibble(compressed, src + 1, compressed[src + 1] \div 16))

\* lines 96-139 for the parsed token t
Lz4Apply(t, dct, dctSize, d) ==
    IF t.brk
    THEN [d EXCEPT !.output = @ \o t.literals, !.tokens = @ + 1,
                   !.src = t.src2, !.brk = TRUE]
    ELSE IF InvalidOffset(t.offset, dctSize, Len(d.output) + Len(t.literals))
    THEN [d EXCEPT !.output = @ \o t.literals, !.tokens = @ + 1, !.src = t.next,
                   !.matches = Append(@, [offset |-> t.offset,
                                          avail |-> dctSize + Len(d.output) + Len(t.literals)]),
                   !.err = TRUE]
    ELSE Lz4CopyMatch(
            [d EXCEPT !.output = @ \o t.literals, !.tokens = @ + 1, !.src = t.next,
                      !.matches = Append(@, [offset |-> t.offset,
                                             avail |-> dctSize + Len(d.output) + Len(t.literals)])],
            dct, dctSize, t.offset, Count(t.matchLength))

\* one iteration of the token loop, lines 86-139
Lz4Token(compressed, dct, dctSize, d) ==
    CHOOSE e \in {Lz4Apply(t, dct, dctSize, d) : t \in {Lz4Parse(compressed, d.src)}} : TRUE

\* lines 85-140: while (src < compressed.length)
RECURSIVE Lz4Loop(_, _, _, _)
Lz4Loop(compressed, dct, dctSize, d) ==
    IF d.err \/ d.brk \/ d.src >= Len(compressed) THEN d
    ELSE CHOOSE e \in {Lz4Loop(compressed, dct, dctSize, x) :
                       x \in {Lz4Token(compressed, dct, dctSize, d)}} : TRUE

\* line 142: Uint8Array.from(output), with what the loop did
Lz4Returned(d) ==
    [err |-> d.err, data |-> [i \in 1..Len(d.output) |-> ToUint8(d.output[i])],
     src |-> d.src, tokens |-> d.tokens, reads |-> d.reads, matches |-> d.matches]

\* decompressLz4BlockWithDict, lines 81-143: .data is the Uint8Array returned
\* unless .err (the call threw 'Invalid LZ4 offset')
decompressLz4BlockWithDict(compressed, dct, dctSize) ==
    Lz4Returned(Lz4Loop(compressed, dct, dctSize,
                        [src |-> 0, output |-> <<>>, err |-> FALSE, brk |-> FALSE,
                         tokens |-> 0, reads |-> {}, matches |-> <<>>]))

\* a faulty dictionary update: the shift of lines 51-52 is left out
UpdateDictNoShift(dct, dctSize, decoded) ==
    IF Len(decoded) >= LzBlockSize
    THEN [dict |-> SetAt(dct, SubSeq(decoded, Len(decoded) - LzBlockSize + 1, Len(decoded)), 0),
          dictSize |-> LzBlockSize]
    ELSE LET available == LzBlockSize - dctSize
         IN  IF Len(decoded) <= available
             THEN [dict |-> SetAt(dct, decoded, dctSize),
                   dictSize |-> dctSize + Len(decoded)]
             ELSE [dict |-> SetAt(dct, decoded, LzBlockSize - Len(decoded)),
                   dictSize |-> LzBlockSize]

\* lines 38-56: the dictionary after a chunk
UpdateDict(dct, dctSize, decoded) ==
    IF Len(decoded) >= LzBlockSize
    THEN [dict |-> SetAt(dct, SubSeq(decoded, Len(decoded) - LzBlockSize + 1, Len(decoded)), 0),
          dictSize |-> LzBlockSize]
    ELSE LET available == LzBlockSize - dctSize
         IN  IF Len(decoded) <= available
             THEN [dict |-> SetAt(dct, decoded, dctSize),
                   dictSize |-> dctSize + Len(decoded)]
             ELSE LET shift == Len(decoded) - available
                  IN  [dict |-> SetAt(CopyWithin(dct, shift), decoded,
                                      LzBlockSize - Len(decoded)),
                       dictSize |-> LzBlockSize]

\* a faulty flag test: only the low four bits are looked at
UnknownFlagsLowNibble(f) == (f % 16) # 0

\* line 26
UnknownFlags(f) == (f % 128) # 0


\* ---- a single-pass reference decoder (no window, no chunk-local output) ----
\* n bytes of a match of offset o appended to the whole output so far: the
\* byte for position p is the byte at position p - o
RECURSIVE RefCopy(_, _, _)
RefCopy(total, o, n) ==
    IF n = 0 THEN total
    ELSE CHOOSE e \in {RefCopy(x, o, n - 1) :
                       x \in {Append(total, total[Len(total) - o + 1])}} : TRUE

\* the tokens of one payload, from src on, applied to the whole output so far;
\* .ok is FALSE when an offset reaches before the start of the output
RECURSIVE RefTokens(_, _, _)
RefToken(compressed, t, out1) ==
    IF t.brk THEN [ok |-> TRUE, out |-> out1]
    ELSE IF t.offset = 0 \/ t.offset > Len(out1) THEN [ok |-> FALSE, out |-> out1]
    ELSE CHOOSE e \in {RefTokens(compressed, t.next, x) :
                       x \in {RefCopy(out1, t.offset, Count(t.matchLength))}} : TRUE

RefLiterals(compressed, t, total) ==
    CHOOSE e \in {RefToken(compressed, t, x) :
                  x \in {total \o [i \in 1..Len(t.literals) |-> ToUint8(t.literals[i])]}} : TRUE

RefTokens(compressed, src, total) ==
    IF src >= Len(compressed) THEN [ok |-> TRUE, out |-> total]
    ELSE CHOOSE e \in {RefLiterals(compressed, t, total) :
                       t \in {Lz4Parse(compressed, src)}} : TRUE

\* what the environment offers -------------------------------------------
Lz4Starts == {0, 3}
Lz4Payloads ==
    {<<16, a>> : a \in {65, 66}}                        \* one literal
    \cup {<<32, 65, 66>>, <<48, 66, 65, 66>>}           \* two and three literals
    \cup {<<0, o, 0>> : o \in {0, 1, 2, 3, 9}}          \* a match of 4
    \cup {<<16, 67, o, 0>> : o \in {1, 2}}              \* a literal and a match of 4
    \cup {<<33, 68, 69, o, 0>> : o \in {2, 3}}          \* two literals and a match of 5
    \cup {<<0, 2, 0, 16, 70>>}                          \* a match, then a literal
    \cup {<<0>>, <<32, 71>>, <<240>>, <<0, 1>>, <<15, 1, 0>>}   \* cut short

\* the LZSS variables while another decoder is the one called
LzssIdle ==
    /\ input = <<>> /\ inputEnd = FALSE /\ inputOffset = 0
    /\ useSignedChecksum = FALSE /\ declaredSize = 0 /\ expectedSize = 0
    /\ lzssPc = "idle" /\ lzssResult = "none"
    /\ inPos = 0 /\ iDst = 0 /\ dst = <<>> /\ calculatedChecksum = 0
    /\ r = 0 /\ buffer = <<>> /\ flags = 0 /\ bytesRead = 0
    /\ lzssLog = <<>>

\* the loop of line 23 is reached with no chunk decoded (history)
NoChunks == [chunks |-> <<>>, produced |-> <<>>, ref |-> [ok |-> TRUE, out |-> <<>>]]

Lz4Init ==
    /\ LzssIdle
    /\ LzoIdle
    /\ ImgIdle
    /\ calls = NoCalls
    /\ rdEnd = FALSE
    /\ startPos \in Lz4Starts
    /\ rdBuffer = [k \in 1..startPos |-> 0]
    /\ rdPos = startPos
    /\ blockSize4 = Undef
    /\ targetSize = 0 /\ target = <<>> /\ targetIdx = 0
    /\ dict = <<>> /\ dictSize = 0 /\ chunkFlags = Undef
    /\ lz4Pc = "start" /\ lz4Result = "none"
    /\ lz4Log = NoChunks

\* lines 12-20; a buffer that is known to its end offers no more bytes
Lz4Start ==
    /\ lz4Pc = "start"
    /\ \E e \in (IF rdEnd THEN {<<>>} ELSE {Bytes32(t) : t \in 0..MaxTarget} \cup {<<>>}) :
         LET buf == rdBuffer \o e
         IN  /\ rdBuffer' = buf
             /\ startPos' = rdPos
             /\ IF ~InView(buf, rdPos, 4)
                THEN /\ rdEnd' = TRUE
                     /\ lz4Pc' = "done" /\ lz4Result' = "range"
                     /\ UNCHANGED <<rdPos, targetSize, target, targetIdx, dict, dictSize>>
                ELSE /\ rdEnd' = rdEnd
                     /\ targetSize' = ReadUInt32(buf, rdPos)
                     /\ rdPos' = rdPos + 4
                     /\ target' = [k \in 1..targetSize' |-> 0]
                     /\ targetIdx' = 0
                     /\ dict' = [k \in 1..LzBlockSize |-> 0]
                     /\ dictSize' = 0
                     /\ lz4Pc' = "chunk"
                     /\ UNCHANGED lz4Result
    /\ chunkFlags' = Undef
    /\ lz4Log' = NoChunks
    /\ UNCHANGED blockSize4
    /\ UNCHANGED notLz4Vars

\* the chunks the environment offers: a header and a payload, the payload
\* complete or one byte short of the size the header states (the buffer ends)
Lz4ChunkBytes ==
    {[bytes |-> <<Len(p) + short, 0, 0, f>> \o p, end |-> (short = 1)] :
        p \in Lz4Payloads, f \in {0, 128}, short \in {0, 1}}
    \cup {[bytes |-> <<1, 0, 0, f>>, end |-> FALSE] : f \in {1, 192}}
    \cup {[bytes |-> <<>>, end |-> TRUE]}

\* lines 32-60: the decoded chunk res, appended to the target and the dictionary
Lz4Append(flgs, res) ==
    IF res.err
    THEN /\ lz4Pc' = "done" /\ lz4Result' = "offset"
         /\ UNCHANGED <<target, targetIdx, dict, dictSize>>
    ELSE IF targetIdx + Len(res.data) > Len(target)
    THEN /\ lz4Pc' = "done" /\ lz4Result' = "overrun"
         /\ UNCHANGED <<target, targetIdx, dict, dictSize>>
    ELSE /\ target' = SetAt(target, res.data, targetIdx)
         /\ targetIdx' = targetIdx + Len(res.data)
         /\ dict' = UpdateDict(dict, dictSize, res.data).dict
         /\ dictSize' = UpdateDict(dict, dictSize, res.data).dictSize
         /\ lz4Pc' = IF (flgs \div 128) % 2 # 0 THEN "finish" ELSE "chunk"
         /\ UNCHANGED lz4Result

\* the history of the chunks: what was decoded, from which dictionary
Lz4Logged(flgs, compressed, res) ==
    [chunks |-> Append(lz4Log.chunks,
                       [flags |-> flgs, compressed |-> compressed, res |-> res,
                        dict |-> dict, dictSize |-> dictSize, at |-> targetIdx]),
     produced |-> IF res.err \/ targetIdx + Len(res.data) > Len(target)
                  THEN lz4Log.produced
                  ELSE lz4Log.produced \o res.data,
     ref |-> IF lz4Log.ref.ok THEN RefTokens(compressed, 0, lz4Log.ref.out)
             ELSE lz4Log.ref]

\* lines 30-31: the payload and its decoding
Lz4Payload(flgs, compressed, res) ==
    /\ lz4Log' = Lz4Logged(flgs, compressed, res)
    /\ Lz4Append(flgs, res)

\* lines 24-31 for the header values read
Lz4Header(buf, compressedSize, flgs) ==
    /\ chunkFlags' = flgs
    /\ IF UnknownFlags(flgs)
       THEN /\ lz4Pc' = "done" /\ lz4Result' = "flags"
            /\ rdPos' = rdPos + 4
            /\ UNCHANGED <<target, targetIdx, dict, dictSize, lz4Log>>
       ELSE /\ rdPos' = rdPos + 4 + compressedSize
            /\ \E compressed \in {ReadBytes(buf, rdPos + 4, compressedSize)} :
                 \E res \in {decompressLz4BlockWithDict(compressed, dict, dictSize)} :
                     Lz4Payload(flgs, compressed, res)

\* one iteration of the chunk loop on the buffer buf; readInt24 has moved the
\* reader by 3 when it is readByte that throws (BinaryReader.ts lines 63-66, 39)
Lz4ChunkOn(buf) ==
    IF ~InView(buf, rdPos, 4)
    THEN /\ lz4Pc' = "done" /\ lz4Result' = "range"
         /\ rdPos' = IF InView(buf, rdPos, 3) THEN rdPos + 3 ELSE rdPos
         /\ UNCHANGED <<target, targetIdx, dict, dictSize, chunkFlags, lz4Log>>
    ELSE Lz4Header(buf, ReadInt24(buf, rdPos), ReadByte(buf, rdPos + 3))

\* one iteration of the chunk loop, lines 23-61, on a buffer that the
\* environment makes known as far as this iteration reads
Lz4ChunkStep(offers) ==
    /\ lz4Pc = "chunk"
    /\ \E e \in (IF rdEnd THEN {[bytes |-> <<>>, end |-> TRUE]} ELSE offers) :
         /\ rdBuffer' = rdBuffer \o e.bytes
         /\ rdEnd' = e.end
         /\ Lz4ChunkOn(rdBuffer \o e.bytes)
    /\ UNCHANGED <<startPos, blockSize4, targetSize>>
    /\ UNCHANGED notLz4Vars

\* the iterations of a call, at most MaxChunks of them
Lz4Chunk ==
    /\ lz4Pc = "chunk"
    /\ Len(lz4Log.chunks) < MaxChunks
    /\ Lz4ChunkStep(Lz4ChunkBytes)

\* a faulty final check: the decoded size is not compared
Lz4VerdictNoSize(start, declared, pos, idx, size) ==
    IF start + declared # pos THEN "length" ELSE "ok"

\* lines 63-70: the two final checks
Lz4Verdict(start, declared, pos, idx, size) ==
    IF start + declared # pos THEN "length"
    ELSE IF idx # size THEN "size"
    ELSE "ok"

\* lines 63-70; the parameter declaredSize is first read here, and is the
\* value passed when the caller has fixed it
Lz4Finish ==
    /\ lz4Pc = "finish"
    /\ \E declared \in (IF blockSize4 = Undef
                         THEN {rdPos - startPos, rdPos - startPos + 1}
                         ELSE {blockSize4}) :
         /\ blockSize4' = declared
         /\ lz4Result' = Lz4Verdict(startPos, declared, rdPos, targetIdx, targetSize)
    /\ lz4Pc' = "done"
    /\ UNCHANGED <<rdBuffer, rdEnd, rdPos, startPos, targetSize, target, targetIdx,
                   dict, dictSize, chunkFlags, lz4Log>>
    /\ UNCHANGED notLz4Vars

Lz4Next == Lz4Start \/ Lz4Chunk \/ Lz4Finish

SpecLz4 == Lz4Init /\ [][Lz4Next]_vars

Min(a, b) == IF a < b THEN a ELSE b
Max(a, b) == IF a > b THEN a ELSE b

Lz4Chunks == lz4Log.chunks

\* C4: a two-chunk chain stream that decodes gives exactly the bytes of the
\* single-pass reference decoder, which resolves a match of offset o at output
\* position p to the byte at p - o of the whole output so far.
C4_ChainEqualsSinglePass ==
    (lz4Result = "ok" /\ Len(Lz4Chunks) = 2)
        => (lz4Log.ref.ok /\ target = lz4Log.ref.out)

\* a two-chunk stream decoded, its second chunk copying from the first one's output
C4_Witness ==
    /\ lz4Result = "ok" /\ Len(Lz4Chunks) = 2
    /\ Len(Lz4Chunks[1].res.data) > 0
    /\ \E rd \in Lz4Chunks[2].res.reads : rd.from = "dict"

\* C5: after each chunk dictSize is min(LzBlockSize, bytes produced so far) and
\* dict[0 .. dictSize) holds the last dictSize bytes of the output of all chunks
\* so far; dictSize never decreases and never exceeds LzBlockSize.
C5_DictIsTailOfOutput ==
    /\ [](lz4Pc \in {"chunk", "finish", "done"} /\ lz4Result # "range" =>
            /\ dictSize = Min(LzBlockSize, Len(lz4Log.produced))
            /\ dictSize <= LzBlockSize
            /\ \A i \in 1..dictSize :
                 dict[i] = lz4Log.produced[Len(lz4Log.produced) - dictSize + i])
    /\ [][dictSize' >= dictSize]_vars

\* a chunk smaller than the window arrived when the window had less room than
\* that: the dictionary was shifted
C5_Witness ==
    /\ Len(Lz4Chunks) = 2 /\ lz4Result = "none"
    /\ Lz4Chunks[2].dictSize > 0
    /\ Len(Lz4Chunks[2].res.data) < LzBlockSize
    /\ Lz4Chunks[2].dictSize + Len(Lz4Chunks[2].res.data) > LzBlockSize
    /\ dictSize = LzBlockSize

\* C6: in every chunk a match of offset 0 or of an offset beyond dictSize plus
\* the bytes the chunk has produced raises the invalid-offset error; every byte
\* of an accepted match at chunk position p comes from the chunk's output at
\* p - offset when p >= offset, and from dict[dictSize + p - offset] otherwise,
\* which lies inside dict[0 .. dictSize).
C6_MatchSourcesInRange ==
    \A k \in 1..Len(Lz4Chunks) :
        LET c == Lz4Chunks[k] IN
        /\ \A m \in 1..Len(c.res.matches) :
             (c.res.matches[m].offset = 0
                \/ c.res.matches[m].offset > c.res.matches[m].avail)
             <=> (c.res.err /\ m = Len(c.res.matches))
        /\ c.res.err => (k = Len(Lz4Chunks) /\ lz4Result = "offset")
        /\ \A rd \in c.res.reads :
             /\ rd.byte # Undef
             /\ IF rd.p >= rd.offset
                THEN rd.from = "output" /\ rd.idx = rd.p - rd.offset
                     /\ rd.idx >= 0 /\ rd.idx < rd.p
                ELSE rd.from = "dict" /\ rd.idx = c.dictSize + rd.p - rd.offset
                     /\ rd.idx >= 0 /\ rd.idx < c.dictSize

\* one match that takes bytes from the dictionary and then from the chunk's own output
C6_Witness ==
    \E k \in 1..Len(Lz4Chunks) :
        /\ \E rd \in Lz4Chunks[k].res.reads : rd.from = "dict"
        /\ \E rd \in Lz4Chunks[k].res.reads : rd.from = "output"
        /\ Len(Lz4Chunks[k].res.matches) = 1

\* C7: a chunk header with a flag bit other than bit 7 raises the flags error
\* before the payload is read or decoded and before the output or the
\* dictionary change; after a chunk with bit 7 nothing more is read.
C7_UnknownFlagsRaiseFirst ==
    /\ []((chunkFlags # Undef /\ chunkFlags % 128 # 0) => lz4Result = "flags")
    /\ [][(lz4Result' = "flags" /\ lz4Result = "none") =>
            /\ UNCHANGED <<target, targetIdx, dict, dictSize, lz4Log>>
            /\ rdPos' = rdPos + 4]_vars
    /\ [][(chunkFlags # Undef /\ chunkFlags >= 128) =>
            UNCHANGED <<rdPos, rdBuffer, target, targetIdx, dict, dictSize>>]_vars

\* the second chunk's header carries an unknown flag
C7_Witness == lz4Result = "flags" /\ Len(Lz4Chunks) >= 1 /\ targetIdx > 0

\* C8: a buffer is returned only when, after the chunk with the last-chunk
\* flag, the reader stands at startPos + declaredSize and the decoded total is
\* the target size of the first 4 bytes; the buffer has that size.  A chunk that
\* would run past the target raises before anything of it is written.
C8_AllOrNothing ==
    /\ [](lz4Result = "ok" =>
            /\ chunkFlags >= 128
            /\ rdPos = startPos + blockSize4
            /\ Len(lz4Log.produced) = targetSize
            /\ target = lz4Log.produced)
    /\ [](lz4Pc # "start" /\ lz4Result # "range" =>
            (Len(target) = targetSize /\ Len(lz4Log.produced) <= targetSize))
    /\ [](lz4Pc = "done" /\ blockSize4 # Undef =>
            (lz4Result = "ok" <=>
                (rdPos = startPos + blockSize4 /\ targetIdx = targetSize)))
    /\ [][lz4Result' = "overrun" /\ lz4Result = "none" =>
            /\ UNCHANGED <<target, targetIdx>>
            /\ LET c == Lz4Chunks'[Len(Lz4Chunks')]
               IN  c.at + Len(c.res.data) > targetSize]_vars

\* two chunks decoded into a non-empty target and returned
C8_Witness ==
    lz4Result = "ok" /\ targetSize > 0 /\ Len(Lz4Chunks) = 2
    /\ Len(Lz4Chunks[1].res.data) > 0 /\ Len(Lz4Chunks[2].res.data) > 0

\* C30: the chunk decoder takes no token, length, literal or offset byte from
\* an index at or beyond the chunk's compressed length: a chunk whose literal
\* run, length extension or offset is cut off by the end of the chunk makes
\* the call fail, so no call returns data decoded from such a chunk.
C30_NoByteFromBeyondTheChunk ==
    \A i \in 1..Len(lz4Log.chunks) :
        lz4Log.chunks[i].res.src > Len(lz4Log.chunks[i].compressed)
            => (lz4Log.chunks[i].res.err /\ lz4Result = "offset")

\* ------------------------------------------------------------------------
\* decompressLz4Block on whole buffers: the call runs to its end
\* ------------------------------------------------------------------------
\* the chunks of a buffer
MaxLiveChunks == 3

LivePayloads == {<<16, 65>>, <<0, 1, 0>>, <<32, 71>>, <<240>>}

\* chunks with and without the last-chunk flag, one whose size field has
\* bit 23 set, one with an unknown flag
LiveChunks ==
    {<<Len(p), 0, 0, f>> \o p : p \in LivePayloads, f \in {0, 128}}
    \cup {<<0, 0, 128, 0>>, <<1, 0, 0, 1, 9>>}

RECURSIVE LiveChunkSeqs(_)
LiveChunkSeqs(n) ==
    IF n = 0 THEN {<<>>}
    ELSE LiveChunkSeqs(n - 1) \cup {a \o b : a \in LiveChunkSeqs(n - 1), b \in LiveChunks}

\* the target size, the chunks, and nothing or a part of a header after them
Lz4Streams ==
    {Bytes32(t) \o c \o e : t \in {0, 2, 5}, c \in LiveChunkSeqs(MaxLiveChunks),
                             e \in {<<>>, <<2, 0, 0>>}}
    \cup {<<>>, <<1, 0>>}

\* the call decompressLz4Block(reader, declaredSize) on a reader at 0 of a
\* buffer that is known to its end
Lz4LiveInit ==
    /\ LzssIdle
    /\ LzoIdle
    /\ ImgIdle
    /\ calls = NoCalls
    /\ rdEnd = TRUE
    /\ startPos = 0
    /\ rdBuffer \in Lz4Streams
    /\ rdPos = 0
    /\ blockSize4 = Undef
    /\ targetSize = 0 /\ target = <<>> /\ targetIdx = 0
    /\ dict = <<>> /\ dictSize = 0 /\ chunkFlags = Undef
    /\ lz4Pc = "start" /\ lz4Result = "none"
    /\ lz4Log = NoChunks

\* one iteration of the chunk loop, however many came before
Lz4LiveChunk == Lz4ChunkStep({})

Lz4LiveNext == Lz4Start \/ Lz4LiveChunk \/ Lz4Finish

\* decompressLz4Block is one synchronous call: a statement that can be
\* executed is executed
SpecLz4Live == Lz4LiveInit /\ [][Lz4LiveNext]_vars /\ WF_vars(Lz4LiveNext)

\* the source index at the start of every iteration of the token loop of
\* lines 85-140, and after the last
RECURSIVE Lz4Srcs(_, _, _, _)
Lz4Srcs(compressed, dct, dctSize, d) ==
    IF d.err \/ d.brk \/ d.src >= Len(compressed) THEN <<d.src>>
    ELSE <<d.src>> \o Lz4Srcs(compressed, dct, dctSize, Lz4Token(compressed, dct, dctSize, d))

SrcsOfChunk(c) ==
    Lz4Srcs(c.compressed, c.dict, c.dictSize,
            [src |-> 0, output |-> <<>>, err |-> FALSE, brk |-> FALSE,
             tokens |-> 0, reads |-> {}, matches |-> <<>>])

\* C29: decompressLz4Block halts on every finite buffer, for every
\* declaredSize: every iteration of the chunk loop moves the reader on by 4
\* bytes or more (or raises at the end of the buffer), every iteration of the
\* token loop moves the source index on by 1 or more, and a stream in which
\* no chunk has the last-chunk flag ends in an error, the range error being
\* raised with the reader less than 4 bytes from the end of the buffer.
C29_Lz4Halts ==
    /\ <>(lz4Pc = "done")
    /\ [][lz4Pc = "chunk" =>
            (rdPos' >= rdPos + 4 \/ (lz4Pc' = "done" /\ lz4Result' = "range"))]_vars
    /\ [](\A i \in 1..Len(lz4Log.chunks) :
            \A k \in 1..(Len(SrcsOfChunk(lz4Log.chunks[i])) - 1) :
                SrcsOfChunk(lz4Log.chunks[i])[k + 1] >= SrcsOfChunk(lz4Log.chunks[i])[k] + 1)
    /\ []((lz4Pc = "done" /\ \A i \in 1..Len(lz4Log.chunks) : lz4Log.chunks[i].flags < 128)
            => lz4Result \in {"range", "flags", "offset", "overrun"})
    /\ [](lz4Result = "range" => rdPos + 4 > Len(rdBuffer))

\* three chunks without the last-chunk flag, the second of two tokens, have
\* been decoded and the call has ended with the range error at the end
C29_Witness ==
    /\ lz4Pc = "done" /\ lz4Result = "range"
    /\ Len(lz4Log.chunks) = MaxLiveChunks
    /\ \A i \in 1..Len(lz4Log.chunks) : lz4Log.chunks[i].flags = 0
    /\ \E i \in 1..Len(lz4Log.chunks) : lz4Log.chunks[i].res.tokens >= 1
    /\ rdPos = Len(rdBuffer)

\* ------------------------------------------------------------------------
\* Lzo.ts: class LZO, lzoDecompress, lzoDecompressWithSize
\* ------------------------------------------------------------------------

\* the length of _out at construction (256 * 1024 in the code, line 29) and
\* _blockSize (128 * 1024, line 16), scaled down together
LzoOutSize == 4
LzoBlockSize == 2
\* no step of the decoder is taken once outputPointer has reached MaxLzoOut
MaxLzoOut == 10
\* the instructions of an input between its first run and its tail
MaxLzoOps == 2
MaxLzoExpected == 8

IsNum(x) == x # Undef /\ x # NaN

\* a < b on JavaScript numbers: false when a is undefined or NaN
Lt(a, b) == IsNum(a) /\ a < b

\* new Uint8Array(n)
Uint8Array(n) == SubSeq([i \in 1..n |-> 0], 1, n)

\* an LZO object that is kept from call to call, and whose output cursor
\* _decompressBuffer leaves where the call before left it
LzoNewOnUsedObject(buf) ==
    [buffer |-> buf, out |-> Uint8Array(LzoOutSize), cbl |-> LzoOutSize,
     t |-> 0, minNewSize |-> LzoBlockSize, inputPointer |-> 0,
     outputPointer |-> IF DOMAIN lzo = {} THEN 0 ELSE lzo.outputPointer,
     matchPosition |-> 0,
     skipToFirstLiteralFunc |-> FALSE, ended |-> FALSE, copies |-> <<>>,
     grown |-> <<>>, lost |-> {}]

\* the fields of a new LZO, lines 16-39, after lines 177-186 of
\* _decompressBuffer(buf).  ended: _match has returned at line 149.  copies is
\* history: the match copies made, with matchPosition and outputPointer at
\* their start; grown, the replacements of _out; lost, the stores that fell
\* beyond the end of _out, by what _minNewSize was then.
LzoNew(buf) ==
    [buffer |-> buf, out |-> Uint8Array(LzoOutSize), cbl |-> LzoOutSize,
     t |-> 0, minNewSize |-> LzoBlockSize, inputPointer |-> 0,
     outputPointer |-> 0, matchPosition |-> 0,
     skipToFirstLiteralFunc |-> FALSE, ended |-> FALSE, copies |-> <<>>,
     grown |-> <<>>, lost |-> {}]

\* the length of the array that line 42 makes
NewLength(minNewSize) == minNewSize + (LzoBlockSize - (minNewSize % LzoBlockSize))

\* new Uint8Array(n) with the array a copied to its start (newBuffer.set(a))
Grown(a, n) == a \o Uint8Array(n - Len(a))

\* a buffer that doubles, or takes the size asked for when that is more
ExtendBufferByDoubling(s) ==
    [s EXCEPT !.out = Grown(@, Max(2 * s.cbl, s.minNewSize)),
              !.cbl = Max(2 * s.cbl, s.minNewSize),
              !.grown = Append(@, [from |-> s.cbl, need |-> s.minNewSize,
                                   to |-> Max(2 * s.cbl, s.minNewSize),
                                   cursor |-> s.outputPointer, read |-> s.inputPointer,
                                   before |-> s.out,
                                   after |-> Grown(s.out, Max(2 * s.cbl, s.minNewSize))])]

\* _extendBuffer, lines 41-50
ExtendBuffer(s) ==
    [s EXCEPT !.out = Grown(@, NewLength(s.minNewSize)),
              !.cbl = Len(Grown(s.out, NewLength(s.minNewSize))),
              !.grown = Append(@, [from |-> s.cbl, need |-> s.minNewSize,
                                   to |-> Len(Grown(s.out, NewLength(s.minNewSize))),
                                   cursor |-> s.outputPointer, read |-> s.inputPointer,
                                   before |-> s.out,
                                   after |-> Grown(s.out, NewLength(s.minNewSize))])]

\* this._minNewSize = m; if (this._minNewSize > this._cbl) this._extendBuffer()
Reserve(s, m) ==
    IF IsNum(m) /\ m > s.cbl
    THEN ExtendBuffer([s EXCEPT !.minNewSize = m])
    ELSE [s EXCEPT !.minNewSize = m]

\* this._out[this._outputPointer++] = c; a typed array drops a store past its end
Put(s, c) ==
    [s EXCEPT !.out = IF s.outputPointer < Len(s.out)
                      THEN [@ EXCEPT ![s.outputPointer + 1] = ToUint8(c)]
                      ELSE @,
              !.lost = IF s.outputPointer < Len(s.out) THEN @
                       ELSE @ \cup {IF IsNum(s.minNewSize) THEN "number" ELSE "NaN"},
              !.outputPointer = @ + 1]

\* n times: this._out[this._outputPointer++] = this._buffer[this._inputPointer++]
RECURSIVE CopyIn(_, _)
CopyIn(s, n) ==
    IF n = 0 THEN s
    ELSE CopyIn([Put(s, At(s.buffer, s.inputPointer)) EXCEPT !.inputPointer = @ + 1],
                n - 1)

\* n times: this._out[this._outputPointer++] = this._out[this._matchPosition++]
RECURSIVE CopyOut(_, _)
CopyOut(s, n) ==
    IF n = 0 THEN s
    ELSE CopyOut([Put(s, At(s.out, s.matchPosition)) EXCEPT !.matchPosition = @ + 1],
                 n - 1)

\* do { ... } while (--this._t > 0): the passes made for _t >= 1 or NaN, and
\* _t afterwards
Times(t) == IF IsNum(t) /\ t > 1 THEN t ELSE 1
Spent(t) == IF IsNum(t) THEN 0 ELSE NaN

\* history: a match copy of n bytes starts
Note(s, n) ==
    [s EXCEPT !.copies = Append(@, [from |-> s.matchPosition, at |-> s.outputPointer,
                                    count |-> n])]

\* _copyMatch, lines 76-83, after this._t += 2
CopyMatchLoop(s) ==
    [CopyOut(Reserve(Note(s, Times(s.t)), JsAdd(s.outputPointer, s.t)), Times(s.t))
        EXCEPT !.t = Spent(@)]

\* _copyMatch, lines 74-84
CopyMatch(s) == CopyMatchLoop([s EXCEPT !.t = JsAdd(@, 2)])

\* _copyFromBuffer, lines 86-95
CopyFromBuffer(s) ==
    [CopyIn(Reserve(s, JsAdd(s.outputPointer, s.t)), Times(s.t)) EXCEPT !.t = Spent(@)]

\* this._t = this._buffer[this._inputPointer++]
ReadT(s) == [s EXCEPT !.t = At(s.buffer, s.inputPointer), !.inputPointer = @ + 1]

\* _matchNext, lines 52-67
MatchNext(s) ==
    ReadT(CopyIn(Reserve(s, s.outputPointer + 3),
                 IF s.t > 2 THEN 3 ELSE IF s.t > 1 THEN 2 ELSE 1))

\* _matchDone, lines 69-72
MatchDone(s) == [s EXCEPT !.t = ToInt(At(s.buffer, s.inputPointer - 2)) % 4]

\* while (this._buffer[this._inputPointer] === 0) { this._t += 255; this._inputPointer++ }
RECURSIVE SkipZeros(_)
SkipZeros(s) ==
    IF At(s.buffer, s.inputPointer) = 0
    THEN SkipZeros([s EXCEPT !.t = @ + 255, !.inputPointer = @ + 1])
    ELSE s

\* this._t += base + this._buffer[this._inputPointer++]
AddLength(s, base) ==
    [s EXCEPT !.t = JsAdd(@, JsAdd(base, At(s.buffer, s.inputPointer))),
              !.inputPointer = @ + 1]

\* if (this._t === 0) { the two statements above }
Extended(s, base) == IF s.t = 0 THEN AddLength(SkipZeros(s), base) ELSE s

\* this._buffer[i] as the operand of a shift
Byte(s, i) == ToInt(At(s.buffer, i))

\* (this._buffer[ip] >> 2) + (this._buffer[ip + 1] << 6), lines 123-124, 143-144
Distance(s) == (Byte(s, s.inputPointer) \div 4) + Byte(s, s.inputPointer + 1) * 64

\* lines 99-107: _t >= 64
Match64(s) ==
    CopyMatch([s EXCEPT !.matchPosition = s.outputPointer - 1 - ((s.t \div 4) % 8)
                                            - Byte(s, s.inputPointer) * 8,
                        !.inputPointer = @ + 1,
                        !.t = (s.t \div 32) - 1])

\* lines 120-127
Match32At(s) ==
    CopyMatch([s EXCEPT !.matchPosition = s.outputPointer - 1 - Distance(s),
                        !.inputPointer = @ + 2])

\* lines 108-127: 32 <= _t < 64
Match32(s) == Match32At(Extended([s EXCEPT !.t = @ % 32], 31))

\* the end of the stream taken at every distance 0, whatever bit 3 of the
\* control byte was
Match16AtOfZeroDistance(s) ==
    IF Distance(s) = 0
    THEN [s EXCEPT !.matchPosition = @ - Distance(s), !.inputPointer = @ + 2,
                   !.ended = TRUE]
    ELSE CopyMatch([s EXCEPT !.matchPosition = @ - Distance(s) - 16384,
                             !.inputPointer = @ + 2])

\* lines 142-153: the end of the stream when the distance is 0
Match16At(s) ==
    IF s.matchPosition - Distance(s) = s.outputPointer
    THEN [s EXCEPT !.matchPosition = @ - Distance(s), !.inputPointer = @ + 2,
                   !.ended = TRUE]
    ELSE CopyMatch([s EXCEPT !.matchPosition = @ - Distance(s) - 16384,
                             !.inputPointer = @ + 2])

\* lines 128-153: 16 <= _t < 32
Match16(s) ==
    Match16At(Extended([s EXCEPT !.matchPosition = s.outputPointer - ((s.t \div 8) % 2) * 16384,
                                 !.t = @ % 8], 7))

\* lines 158-165 and 233-241: n bytes copied, the last without matchPosition++
ShortCopy(s, n) ==
    [CopyOut(Reserve(Note(s, n), s.outputPointer + n), n) EXCEPT !.matchPosition = @ - 1]

\* lines 154-166: _t < 16, also when _t is undefined
Match0(s) ==
    ShortCopy([s EXCEPT !.matchPosition = s.outputPointer - 1 - (ToInt(s.t) \div 4)
                                            - Byte(s, s.inputPointer) * 4,
                        !.inputPointer = @ + 1], 2)

\* lines 99-166: the branch of one pass of the loop of _match
MatchBranch(s) ==
    IF s.t >= 64 THEN Match64(s)
    ELSE IF s.t >= 32 THEN Match32(s)
    ELSE IF s.t >= 16 THEN Match16(s)
    ELSE Match0(s)

\* lines 229-241: the match right after a literal run
FarCopy(s) ==
    ShortCopy([s EXCEPT !.matchPosition = s.outputPointer - 2049 - (s.t \div 4)
                                            - Byte(s, s.inputPointer) * 4,
                        !.inputPointer = @ + 1], 3)

\* this._out.subarray(0, this._outputPointer)
Subarray(s) == Prefix(s.out, Min(s.outputPointer, Len(s.out)))

\* a size check that lets a longer output through
LzoSizeMismatchShort(length, expected) == length < expected

\* lines 284 and 298
LzoSizeMismatch(length, expected) == length # expected

\* what the environment passes as src: a first run or instruction, more
\* instructions, and a tail that is nothing, the end of the stream or a part of it
LzoFirsts ==
    {<<18, 65>>, <<21, 65, 66, 67, 68>>, <<1, 65, 66, 67, 68>>, <<17, 4, 0>>}
LzoOps ==
    {<<1, 65, 66, 67, 68>>, <<64, 0>>, <<65, 0, 70>>, <<33, 0, 0>>, <<33, 5, 0, 71>>,
     <<4, 0>>, <<17, 4, 0>>, <<96, 1>>, <<25, 0, 0>>}
LzoTails == {<<>>, <<17, 0, 0>>, <<17>>, <<16, 1, 0, 0>>}

RECURSIVE LzoOpSeqs(_)
LzoOpSeqs(n) ==
    IF n = 0 THEN {<<>>}
    ELSE LzoOpSeqs(n - 1) \cup {a \o b : a \in LzoOpSeqs(n - 1), b \in LzoOps}

LzoInputs ==
    LzoTails \cup
    {f \o m \o e : f \in LzoFirsts, m \in LzoOpSeqs(MaxLzoOps), e \in LzoTails}

\* the call lzoDecompress(src, expectedSize) or lzoDecompressWithSize(src, expectedSize)
LzoInit ==
    /\ LzssIdle
    /\ Lz4Idle
    /\ ImgIdle
    /\ calls = NoCalls
    /\ lzoSrc \in LzoInputs
    /\ lzoExpectedSize \in 0..MaxLzoExpected
    /\ lzoWithSize \in BOOLEAN
    /\ lzo = <<>>
    /\ lzoPc = "start"
    /\ lzoResult = "none"
    /\ lzoReturned = <<>>

\* lines 168-172: _match returns true (back to the loop of _decompressBuffer)
\* or goes round its loop; also lines 243-247
LzoMatchDone(s) ==
    IF s.t = 0
    THEN lzo' = s /\ lzoPc' = "main"
    ELSE lzo' = MatchNext(s) /\ lzoPc' = "match"

\* lines 147-150 and 168-172, after the branch
LzoMatched(s) ==
    IF s.ended
    THEN lzo' = s /\ lzoPc' = "returned"
    ELSE LzoMatchDone(MatchDone(s))

\* lines 189-200: the first byte is above 17
LzoFirstRun(s) ==
    IF s.t < 4
    THEN lzo' = MatchNext(s) /\ lzoPc' = "match"
    ELSE /\ lzo' = [CopyFromBuffer(s) EXCEPT !.skipToFirstLiteralFunc = TRUE]
         /\ lzoPc' = "main"

\* lines 188-201
LzoFirst(s) ==
    IF At(s.buffer, 0) > 17
    THEN LzoFirstRun([s EXCEPT !.t = s.buffer[1] - 17, !.inputPointer = 1])
    ELSE lzo' = s /\ lzoPc' = "main"

\* lines 281-282 / 295-296 and _decompressBuffer up to its loop, lines 177-201
LzoStart ==
    /\ lzoPc = "start"
    /\ LzoFirst(LzoNew(lzoSrc))
    /\ UNCHANGED <<lzoSrc, lzoExpectedSize, lzoWithSize, lzoResult, lzoReturned>>
    /\ UNCHANGED notLzoVars

\* lines 207-223, with the byte read at line 205 in _t
LzoLiteral(s) ==
    IF s.t >= 16
    THEN lzo' = s /\ lzoPc' = "match"
    ELSE /\ lzo' = CopyFromBuffer([Extended(s, 15) EXCEPT !.t = JsAdd(@, 3)])
         /\ lzoPc' = "afterLiteral"

\* lines 204-224: the first half of a pass of the loop of _decompressBuffer
LzoMain ==
    /\ lzoPc = "main"
    /\ lzo.outputPointer < MaxLzoOut
    /\ IF lzo.skipToFirstLiteralFunc
       THEN /\ lzo' = [lzo EXCEPT !.skipToFirstLiteralFunc = FALSE]
            /\ lzoPc' = "afterLiteral"
       ELSE LzoLiteral(ReadT(lzo))
    /\ UNCHANGED <<lzoSrc, lzoExpectedSize, lzoWithSize, lzoResult, lzoReturned>>
    /\ UNCHANGED notLzoVars

\* lines 228-247, with the byte read at line 226 in _t
LzoSecond(s) ==
    IF Lt(s.t, 16)
    THEN LzoMatchDone(MatchDone(FarCopy(s)))
    ELSE lzo' = s /\ lzoPc' = "match"

\* lines 226-247: the second half of a pass of the loop of _decompressBuffer
LzoAfterLiteral ==
    /\ lzoPc = "afterLiteral"
    /\ lzo.outputPointer < MaxLzoOut
    /\ LzoSecond(ReadT(lzo))
    /\ UNCHANGED <<lzoSrc, lzoExpectedSize, lzoWithSize, lzoResult, lzoReturned>>
    /\ UNCHANGED notLzoVars

\* one pass of the loop of _match, lines 98-173
LzoMatch ==
    /\ lzoPc = "match"
    /\ lzo.outputPointer < MaxLzoOut
    /\ LzoMatched(MatchBranch(lzo))
    /\ UNCHANGED <<lzoSrc, lzoExpectedSize, lzoWithSize, lzoResult, lzoReturned>>
    /\ UNCHANGED notLzoVars

\* lines 284-288 / 298-302 on the array that _decompressBuffer returned
LzoChecked(data) ==
    IF LzoSizeMismatch(Len(data), lzoExpectedSize)
    THEN lzoResult' = "mismatch" /\ lzoReturned' = <<>>
    ELSE /\ lzoResult' = "ok"
         /\ lzoReturned' = IF lzoWithSize
                           THEN [data |-> data, bytesRead |-> lzo.inputPointer]
                           ELSE [data |-> data]

\* the return of decompress / decompressWithSize and the size check
LzoCheck ==
    /\ lzoPc = "returned"
    /\ lzoPc' = "done"
    /\ LzoChecked(Subarray(lzo))
    /\ UNCHANGED <<lzoSrc, lzoExpectedSize, lzoWithSize, lzo>>
    /\ UNCHANGED notLzoVars

LzoNext == LzoStart \/ LzoMain \/ LzoAfterLiteral \/ LzoMatch \/ LzoCheck

SpecLzo == LzoInit /\ [][LzoNext]_vars

\* C9: lzoDecompress and lzoDecompressWithSize return only after the decoder
\* has stopped at the end-of-stream sentinel, and then exactly when the number
\* of bytes written is expectedSize: what is returned is those bytes (with the
\* input cursor as bytesRead); any other length raises the size mismatch and
\* nothing is returned.
C9_SizeCheck ==
    /\ lzoResult # "none" => lzoPc = "done"
    /\ lzoPc = "done" =>
        /\ lzo.ended /\ lzo.matchPosition = lzo.outputPointer
        /\ lzoResult = "ok" <=> lzo.outputPointer = lzoExpectedSize
        /\ lzoResult = "ok" =>
            /\ lzoReturned.data = Prefix(lzo.out, lzo.outputPointer)
            /\ lzoWithSize => lzoReturned.bytesRead = lzo.inputPointer
        /\ lzoResult # "ok" => lzoResult = "mismatch" /\ lzoReturned = <<>>

\* a literal run, a match that overlaps its own output and the sentinel,
\* returned by lzoDecompressWithSize
C9_Witness ==
    /\ lzoPc = "done" /\ lzoResult = "ok" /\ lzoWithSize
    /\ lzoSrc = <<21, 65, 66, 67, 68, 64, 0, 17, 0, 0>>
    /\ lzoReturned = [data |-> <<65, 66, 67, 68, 68, 68, 68>>, bytesRead |-> 10]

\* C10: every match copy of the LZO decoder starts at a position of the
\* output that has been written, 0 <= matchPosition < outputPointer; a match
\* whose position is negative is never copied.
C10_MatchCopiesReadWrittenOutput ==
    lzoPc # "start" =>
        \A i \in 1..Len(lzo.copies) :
            lzo.copies[i].from >= 0 /\ lzo.copies[i].from < lzo.copies[i].at

\* the control byte at place c of the input begins an end-of-stream match
\* that ends where the input cursor of s is: the byte is in 16..31 with bit 3
\* clear, its length is in the byte or (low bits 0) in a run of zero bytes
\* and one more byte, and the two bytes before the cursor give distance 0
SentinelAt(s, c) ==
    /\ Byte(s, c) \in 16..31 /\ (Byte(s, c) \div 8) % 2 = 0
    /\ IF Byte(s, c) % 8 # 0
       THEN s.inputPointer = c + 3
       ELSE /\ s.inputPointer >= c + 4
            /\ \A i \in (c + 1)..(s.inputPointer - 4) : At(s.buffer, i) = 0
            /\ At(s.buffer, s.inputPointer - 3) # 0
    /\ (Byte(s, s.inputPointer - 2) \div 4) + Byte(s, s.inputPointer - 1) * 64 = 0

\* the match of the 16..31 branch that is about to be decoded, after its
\* length has been read
Pending16 == Extended([lzo EXCEPT !.t = @ % 8], 7)

\* C26: the LZO1X decoder returns exactly at a match whose control byte is
\* in 16..31 with bit 3 clear and whose two distance bytes give distance 0
\* (the match position equals the output cursor): it returns from no other
\* place, it always returns there, what it returns is out[0 .. outputPointer)
\* and the input cursor stays right after the two distance bytes.
C26_StopsAtTheSentinelOnly ==
    /\ [](lzoPc \in {"returned", "done"} <=> (lzoPc # "start" /\ lzoPc # "idle" /\ lzo.ended))
    /\ [](lzoPc \in {"returned", "done"} =>
            /\ \E c \in 0..(lzo.inputPointer - 3) : SentinelAt(lzo, c)
            /\ lzo.matchPosition = lzo.outputPointer
            /\ lzo.outputPointer <= Len(lzo.out)
            /\ Subarray(lzo) = SubSeq(lzo.out, 1, lzo.outputPointer))
    /\ [](lzoResult = "ok" =>
            /\ lzoReturned.data = SubSeq(lzo.out, 1, lzo.outputPointer)
            /\ lzoWithSize => lzoReturned.bytesRead = lzo.inputPointer)
    /\ [][(lzoPc = "match" /\ lzo.outputPointer < MaxLzoOut /\ IsNum(lzo.t)
            /\ lzo.t \in 16..31)
           => ((lzoPc' = "returned")
                 <=> ((lzo.t \div 8) % 2 = 0 /\ Distance(Pending16) = 0))]_vars

\* the decoder has returned at the sentinel 17 0 0 after a match with control
\* byte 25 (bit 3 set) and distance 0 that did not end the stream, and has
\* left the input cursor right after the sentinel
C26_Witness ==
    /\ lzoPc = "done" /\ lzo.ended
    /\ lzoSrc = <<21, 65, 66, 67, 68, 25, 0, 0, 17, 0, 0>>
    /\ lzo.inputPointer = 11 /\ lzo.outputPointer = 7

C28_NoGrowthBeyondTheInput ==
    (lzoPc \in {"main", "afterLiteral", "match"} /\ lzo.inputPointer > Len(lzoSrc))
        => \A i \in 1..Len(lzo.grown) : lzo.grown[i].read <= Len(lzoSrc)

\* ------------------------------------------------------------------------
\* lzssDecompress: the byte count
\* ------------------------------------------------------------------------

\* C11: when lzssDecompress returns for an expectedSize above 0, bytesRead is
\* the flag bytes, one byte per literal, two per back-reference and the four
\* bytes of the trailer; it counts from inputOffset, so inputOffset + bytesRead
\* is the position right after the trailer that was compared.
C11_BytesReadCountsFromOffset ==
    lzssResult = "ok" =>
        /\ bytesRead = lzssLog.nFlag + lzssLog.nLit + 2 * lzssLog.nMatch + 4
        /\ inputOffset + bytesRead = inPos
        /\ inPos <= Len(input)
        /\ GetInt32(input, inputOffset + bytesRead - 4) = calculatedChecksum

\* a literal and a back-reference decoded from a non-zero inputOffset
C11_Witness ==
    /\ lzssResult = "ok" /\ inputOffset > 0
    /\ lzssLog.nLit > 0 /\ lzssLog.nMatch > 0

\* ------------------------------------------------------------------------
\* BC7 block decoder (bc7.ts)
\* ------------------------------------------------------------------------
\* A 64-bit bigint read by getBigUint64(.., true) is kept as its 8 bytes, the
\* lowest first; the bits of the block are taken out of them one by one.

\* bit j of the bigint source; a shift past bit 63 leaves 0
Bit(source, j) == IF j < 64 THEN (source[(j \div 8) + 1] \div (2 ^ (j % 8))) % 2 ELSE 0

\* ByteHelper.extract, lines 11-14
RECURSIVE extract(_, _, _)
extract(source, index, bitCount) ==
    IF bitCount = 0 THEN 0
    ELSE Bit(source, index) + 2 * extract(source, index + 1, bitCount - 1)

\* ByteHelper.extractFrom128, lines 16-35
extractFrom128(low, high, index, bitCount) ==
    IF index + bitCount <= 64 THEN extract(low, index, bitCount)
    ELSE IF index >= 64 THEN extract(high, index - 64, bitCount)
    ELSE extract(low, index, 64 - index)
         + extract(high, 0, bitCount - (64 - index)) * (2 ^ (64 - index))

\* ByteHelper.extract1 .. extract6, lines 37-51
extract1(source, index) == extract(source, index, 1)
extract2(source, index) == extract(source, index, 2)
extract4(source, index) == extract(source, index, 4)
extract6(source, index) == extract(source, index, 6)

\* lines 55-57
COLOR_WEIGHTS_2 == <<0, 21, 43, 64>>
COLOR_WEIGHTS_3 == <<0, 9, 18, 27, 37, 46, 55, 64>>
COLOR_WEIGHTS_4 == <<0, 4, 9, 13, 17, 21, 26, 30, 34, 38, 43, 47, 51, 55, 60, 64>>

\* line 62-64
Weights(indexPrecision) ==
    IF indexPrecision = 2 THEN COLOR_WEIGHTS_2
    ELSE IF indexPrecision = 3 THEN COLOR_WEIGHTS_3
    ELSE COLOR_WEIGHTS_4

\* the weights applied to the wrong endpoints
interpolateByteFromE1(e0, e1, index, indexPrecision) ==
    IF indexPrecision = 0 THEN e0
    ELSE (Weights(indexPrecision)[index + 1] * e0
          + (64 - Weights(indexPrecision)[index + 1]) * e1 + 32) \div 64

\* interpolateByte, lines 59-68
interpolateByte(e0, e1, index, indexPrecision) ==
    IF indexPrecision = 0 THEN e0
    ELSE ((64 - Weights(indexPrecision)[index + 1]) * e0
          + Weights(indexPrecision)[index + 1] * e1 + 32) \div 64

\* lines 71-160
SUBSETS_2_PARTITION_TABLE ==
    <<
     <<0,0,1,1,0,0,1,1,0,0,1,1,0,0,1,1>>, <<0,0,0,1,0,0,0,1,0,0,0,1,0,0,0,1>>,
     <<0,1,1,1,0,1,1,1,0,1,1,1,0,1,1,1>>, <<0,0,0,1,0,0,1,1,0,0,1,1,0,1,1,1>>,
     <<0,0,0,0,0,0,0,1,0,0,0,1,0,0,1,1>>, <<0,0,1,1,0,1,1,1,0,1,1,1,1,1,1,1>>,
     <<0,0,0,1,0,0,1,1,0,1,1,1,1,1,1,1>>, <<0,0,0,0,0,0,0,1,0,0,1,1,0,1,1,1>>,
     <<0,0,0,0,0,0,0,0,0,0,0,1,0,0,1,1>>, <<0,0,1,1,0,1,1,1,1,1,1,1,1,1,1,1>>,
     <<0,0,0,0,0,0,0,1,0,1,1,1,1,1,1,1>>, <<0,0,0,0,0,0,0,0,0,0,0,1,0,1,1,1>>,
     <<0,0,0,1,0,1,1,1,1,1,1,1,1,1,1,1>>, <<0,0,0,0,0,0,0,0,1,1,1,1,1,1,1,1>>,
     <<0,0,0,0,1,1,1,1,1,1,1,1,1,1,1,1>>, <<0,0,0,0,0,0,0,0,0,0,0,0,1,1,1,1>>,
     <<0,0,0,0,1,0,0,0,1,1,1,0,1,1,1,1>>, <<0,1,1,1,0,0,0,1,0,0,0,0,0,0,0,0>>,
     <<0,0,0,0,0,0,0,0,1,0,0,0,1,1,1,0>>, <<0,1,1,1,0,0,1,1,0,0,0,1,0,0,0,0>>,
     <<0,0,1,1,0,0,0,1,0,0,0,0,0,0,0,0>>, <<0,0,0,0,1,0,0,0,1,1,0,0,1,1,1,0>>,
     <<0,0,0,0,0,0,0,0,1,0,0,0,1,1,0,0>>, <<0,1,1,1,0,0,1,1,0,0,1,1,0,0,0,1>>,
     <<0,0,1,1,0,0,0,1,0,0,0,1,0,0,0,0>>, <<0,0,0,0,1,0,0,0,1,0,0,0,1,1,0,0>>,
     <<0,1,1,0,0,1,1,0,0,1,1,0,0,1,1,0>>, <<0,0,1,1,0,1,1,0,0,1,1,0,1,1,0,0>>,
     <<0,0,0,1,0,1,1,1,1,1,1,0,1,0,0,0>>, <<0,0,0,0,1,1,1,1,1,1,1,1,0,0,0,0>>,
     <<0,1,1,1,0,0,0,1,1,0,0,0,1,1,1,0>>, <<0,0,1,1,1,0,0,1,1,0,0,1,1,1,0,0>>,
     <<0,1,0,1,0,1,0,1,0,1,0,1,0,1,0,1>>, <<0,0,0,0,1,1,1,1,0,0,0,0,1,1,1,1>>,
     <<0,1,0,1,1,0,1,0,0,1,0,1,1,0,1,0>>, <<0,0,1,1,0,0,1,1,1,1,0,0,1,1,0,0>>,
     <<0,0,1,1,1,1,0,0,0,0,1,1,1,1,0,0>>, <<0,1,0,1,0,1,0,1,1,0,1,0,1,0,1,0>>,
     <<0,1,1,0,1,0,0,1,0,1,1,0,1,0,0,1>>, <<0,1,0,1,1,0,1,0,1,0,1,0,0,1,0,1>>,
     <<0,1,1,1,0,0,1,1,1,1,0,0,1,1,1,0>>, <<0,0,0,1,0,0,1,1,1,1,0,0,1,0,0,0>>,
     <<0,0,1,1,0,0,1,0,0,1,0,0,1,1,0,0>>, <<0,0,1,1,1,0,1,1,1,1,0,1,1,1,0,0>>,
     <<0,1,1,0,1,0,0,1,1,0,0,1,0,1,1,0>>, <<0,0,1,1,1,1,0,0,1,1,0,0,0,0,1,1>>,
     <<0,1,1,0,0,1,1,0,1,0,0,1,1,0,0,1>>, <<0,0,0,0,0,1,1,0,0,1,1,0,0,0,0,0>>,
     <<0,1,0,0,1,1,1,0,0,1,0,0,0,0,0,0>>, <<0,0,1,0,0,1,1,1,0,0,1,0,0,0,0,0>>,
     <<0,0,0,0,0,0,1,0,0,1,1,1,0,0,1,0>>, <<0,0,0,0,0,1,0,0,1,1,1,0,0,1,0,0>>,
     <<0,1,1,0,1,1,0,0,1,0,0,1,0,0,1,1>>, <<0,0,1,1,0,1,1,0,1,1,0,0,1,0,0,1>>,
     <<0,1,1,0,0,0,1,1,1,0,0,1,1,1,0,0>>, <<0,0,1,1,1,0,0,1,1,1,0,0,0,1,1,0>>,
     <<0,1,1,0,1,1,0,0,1,1,0,0,1,0,0,1>>, <<0,1,1,0,0,0,1,1,0,0,1,1,1,0,0,1>>,
     <<0,1,1,1,1,1,1,0,1,0,0,0,0,0,0,1>>, <<0,0,0,1,1,0,0,0,1,1,1,0,0,1,1,1>>,
     <<0,0,0,0,1,1,1,1,0,0,1,1,0,0,1,1>>, <<0,0,1,1,0,0,1,1,1,1,1,1,0,0,0,0>>,
     <<0,0,1,0,0,0,1,0,1,1,1,0,1,1,1,0>>, <<0,1,0,0,0,1,0,0,0,1,1,1,0,1,1,1>>
    >>

SUBSETS_3_PARTITION_TABLE ==
    <<
     <<0,0,1,1,0,0,1,1,0,2,2,1,2,2,2,2>>, <<0,0,0,1,0,0,1,1,2,2,1,1,2,2,2,1>>,
     <<0,0,0,0,2,0,0,1,2,2,1,1,2,2,1,1>>, <<0,2,2,2,0,0,2,2,0,0,1,1,0,1,1,1>>,
     <<0,0,0,0,0,0,0,0,1,1,2,2,1,1,2,2>>, <<0,0,1,1,0,0,1,1,0,0,2,2,0,0,2,2>>,
     <<0,0,2,2,0,0,2,2,1,1,1,1,1,1,1,1>>, <<0,0,1,1,0,0,1,1,2,2,1,1,2,2,1,1>>,
     <<0,0,0,0,0,0,0,0,1,1,1,1,2,2,2,2>>, <<0,0,0,0,1,1,1,1,1,1,1,1,2,2,2,2>>,
     <<0,0,0,0,1,1,1,1,2,2,2,2,2,2,2,2>>, <<0,0,1,2,0,0,1,2,0,0,1,2,0,0,1,2>>,
     <<0,1,1,2,0,1,1,2,0,1,1,2,0,1,1,2>>, <<0,1,2,2,0,1,2,2,0,1,2,2,0,1,2,2>>,
     <<0,0,1,1,0,1,1,2,1,1,2,2,1,2,2,2>>, <<0,0,1,1,2,0,0,1,2,2,0,0,2,2,2,0>>,
     <<0,0,0,1,0,0,1,1,0,1,1,2,1,1,2,2>>, <<0,1,1,1,0,0,1,1,2,0,0,1,2,2,0,0>>,
     <<0,0,0,0,1,1,2,2,1,1,2,2,1,1,2,2>>, <<0,0,2,2,0,0,2,2,0,0,2,2,1,1,1,1>>,
     <<0,1,1,1,0,1,1,1,0,2,2,2,0,2,2,2>>, <<0,0,0,1,0,0,0,1,2,2,2,1,2,2,2,1>>,
     <<0,0,0,0,0,0,1,1,0,1,2,2,0,1,2,2>>, <<0,0,0,0,1,1,0,0,2,2,1,0,2,2,1,0>>,
     <<0,1,2,2,0,1,2,2,0,0,1,1,0,0,0,0>>, <<0,0,1,2,0,0,1,2,1,1,2,2,2,2,2,2>>,
     <<0,1,1,0,1,2,2,1,1,2,2,1,0,1,1,0>>, <<0,0,0,0,0,1,1,0,1,2,2,1,1,2,2,1>>,
     <<0,0,2,2,1,1,0,2,1,1,0,2,0,0,2,2>>, <<0,1,1,0,0,1,1,0,2,0,0,2,2,2,2,2>>,
     <<0,0,1,1,0,1,2,2,0,1,2,2,0,0,1,1>>, <<0,0,0,0,2,0,0,0,2,2,1,1,2,2,2,1>>,
     <<0,0,0,0,0,0,0,2,1,1,2,2,1,2,2,2>>, <<0,2,2,2,0,0,2,2,0,0,1,2,0,0,1,1>>,
     <<0,0,1,1,0,0,1,2,0,0,2,2,0,2,2,2>>, <<0,1,2,0,0,1,2,0,0,1,2,0,0,1,2,0>>,
     <<0,0,0,0,1,1,1,1,2,2,2,2,0,0,0,0>>, <<0,1,2,0,1,2,0,1,2,0,1,2,0,1,2,0>>,
     <<0,1,2,0,2,0,1,2,1,2,0,1,0,1,2,0>>, <<0,0,1,1,2,2,0,0,1,1,2,2,0,0,1,1>>,
     <<0,0,1,1,1,1,2,2,2,2,0,0,0,0,1,1>>, <<0,1,0,1,0,1,0,1,2,2,2,2,2,2,2,2>>,
     <<0,0,0,0,0,0,0,0,2,1,2,1,2,1,2,1>>, <<0,0,2,2,1,1,2,2,0,0,2,2,1,1,2,2>>,
     <<0,0,2,2,0,0,1,1,0,0,2,2,0,0,1,1>>, <<0,2,2,0,1,2,2,1,0,2,2,0,1,2,2,1>>,
     <<0,1,0,1,2,2,2,2,2,2,2,2,0,1,0,1>>, <<0,0,0,0,2,1,2,1,2,1,2,1,2,1,2,1>>,
     <<0,1,0,1,0,1,0,1,0,1,0,1,2,2,2,2>>, <<0,2,2,2,0,1,1,1,0,2,2,2,0,1,1,1>>,
     <<0,0,0,2,1,1,1,2,0,0,0,2,1,1,1,2>>, <<0,0,0,0,2,1,1,2,2,1,1,2,2,1,1,2>>,
     <<0,2,2,2,0,1,1,1,0,1,1,1,0,2,2,2>>, <<0,0,0,2,1,1,1,2,1,1,1,2,0,0,0,2>>,
     <<0,1,1,0,0,1,1,0,0,1,1,0,2,2,2,2>>, <<0,0,0,0,0,0,0,0,2,1,1,2,2,1,1,2>>,
     <<0,1,1,0,0,1,1,0,2,2,2,2,2,2,2,2>>, <<0,0,2,2,0,0,1,1,0,0,1,1,0,0,2,2>>,
     <<0,0,2,2,1,1,2,2,1,1,2,2,0,0,2,2>>, <<0,0,0,0,0,0,0,0,0,0,0,0,2,1,1,2>>,
     <<0,0,0,2,0,0,0,1,0,0,0,2,0,0,0,1>>, <<0,2,2,2,1,2,2,2,0,2,2,2,1,2,2,2>>,
     <<0,1,0,1,2,2,2,2,2,2,2,2,2,2,2,2>>, <<0,1,1,1,2,0,1,1,2,2,0,1,2,2,2,0>>
    >>

SUBSETS_2_ANCHOR_INDICES ==
    <<15, 15, 15, 15, 15, 15, 15, 15, 15, 15, 15, 15, 15, 15, 15, 15,
      15, 2, 8, 2, 2, 8, 8, 15, 2, 8, 2, 2, 8, 8, 2, 2,
      15, 15, 6, 8, 2, 8, 15, 15, 2, 8, 2, 2, 2, 15, 15, 6,
      6, 2, 6, 8, 15, 15, 2, 2, 15, 15, 15, 15, 15, 2, 2, 15>>

SUBSETS_3_ANCHOR_INDICES_2 ==
    <<3, 3, 15, 15, 8, 3, 15, 15, 8, 8, 6, 6, 6, 5, 3, 3,
      3, 3, 8, 15, 3, 3, 6, 10, 5, 8, 8, 6, 8, 5, 15, 15,
      8, 15, 3, 5, 6, 10, 8, 15, 15, 3, 15, 5, 15, 15, 15, 15,
      3, 15, 5, 5, 5, 8, 5, 10, 5, 10, 8, 13, 15, 12, 3, 3>>

SUBSETS_3_ANCHOR_INDICES_3 ==
    <<15, 8, 8, 3, 15, 15, 3, 8, 15, 15, 15, 15, 15, 15, 15, 8,
      15, 8, 15, 3, 15, 8, 15, 8, 3, 15, 6, 10, 15, 15, 10, 8,
      15, 3, 15, 10, 10, 8, 9, 10, 6, 15, 8, 15, 3, 6, 6, 8,
      15, 3, 15, 15, 15, 15, 15, 15, 15, 15, 15, 15, 3, 15, 15, 8>>

\* Bc7Block.getType, lines 173-181: the lowest set bit of the low byte
RECURSIVE TypeFrom(_, _)
TypeFrom(low, i) ==
    IF i >= 8 THEN 8
    ELSE IF Bit(low, i) = 1 THEN i
    ELSE TypeFrom(low, i + 1)

\* getType with the reserved type taken for mode 0
getTypeNoReserved(low) == TypeFrom(low, 0) % 8

getType(low) == TypeFrom(low, 0)

\* lines 183-187
\* getNumSubsets with one subset for the modes 0 and 2 too
getNumSubsetsUpToTwo(type) == IF type \in {1, 3, 7} THEN 2 ELSE 1

getNumSubsets(type) ==
    IF type = 0 \/ type = 2 THEN 3
    ELSE IF type = 1 \/ type = 3 \/ type = 7 THEN 2
    ELSE 1

\* lines 189-198
getPartitionSetId(low, type) ==
    CASE type = 0 -> extract4(low, 1)
      [] type = 1 -> extract6(low, 2)
      [] type = 2 -> extract6(low, 3)
      [] type = 3 -> extract6(low, 4)
      [] type = 7 -> extract6(low, 8)
      [] OTHER -> 0

\* lines 200-204
getRotationBits(low, type) ==
    IF type = 4 THEN extract2(low, 5)
    ELSE IF type = 5 THEN extract2(low, 6)
    ELSE 0

\* lines 206-209
getColorComponentPrecision(type) ==
    IF type \in 0..7 THEN <<5, 7, 5, 8, 5, 7, 8, 6>>[type + 1] ELSE 0

\* lines 211-216
getAlphaComponentPrecision(type) ==
    IF type = 4 THEN 6
    ELSE IF type = 5 \/ type = 6 THEN 8
    ELSE IF type = 7 THEN 6
    ELSE 0

\* lines 218-220
getType4IndexMode(low) == extract1(low, 7)

\* lines 222-231
getColorIndexBitCount(low, type) ==
    IF type = 0 \/ type = 1 THEN 3
    ELSE IF type = 2 \/ type = 3 \/ type = 5 \/ type = 7 THEN 2
    ELSE IF type = 4 THEN (IF getType4IndexMode(low) = 0 THEN 2 ELSE 3)
    ELSE IF type = 6 THEN 4
    ELSE 0

\* lines 233-241
getAlphaIndexBitCount(low, type) ==
    IF type = 4 THEN (IF getType4IndexMode(low) = 0 THEN 3 ELSE 2)
    ELSE IF type = 5 \/ type = 7 THEN 2
    ELSE IF type = 6 THEN 4
    ELSE 0

\* a | b on non-negative numbers
RECURSIVE BitOr(_, _)
BitOr(a, b) ==
    IF a = 0 THEN b
    ELSE IF b = 0 THEN a
    ELSE (IF a % 2 = 1 \/ b % 2 = 1 THEN 1 ELSE 0) + 2 * BitOr(a \div 2, b \div 2)

\* ByteHelper.extractFrom128(this.lowBits, this.highBits, base + i * width, width)
Field(low, high, base, i, width) == extractFrom128(low, high, base + i * width, width)

\* extractRawEndpoints, lines 246-313: endpoints[i] for the type
RawEndpoint(low, high, type, i) ==
    CASE type = 0 -> [r |-> Field(low, high, 5, i, 4), g |-> Field(low, high, 29, i, 4),
                      b |-> Field(low, high, 53, i, 4), a |-> 0]
      [] type = 1 -> [r |-> Field(low, high, 8, i, 6), g |-> Field(low, high, 32, i, 6),
                      b |-> Field(low, high, 56, i, 6), a |-> 0]
      [] type = 2 -> [r |-> Field(low, high, 9, i, 5), g |-> Field(low, high, 39, i, 5),
                      b |-> Field(low, high, 69, i, 5), a |-> 0]
      [] type = 3 -> [r |-> Field(low, high, 10, i, 7), g |-> Field(low, high, 38, i, 7),
                      b |-> Field(low, high, 66, i, 7), a |-> 0]
      [] type = 4 -> [r |-> Field(low, high, 8, i, 5), g |-> Field(low, high, 18, i, 5),
                      b |-> Field(low, high, 28, i, 5),
                      a |-> extractFrom128(low, high, 38 + i * 6, 6)]
      [] type = 5 -> [r |-> Field(low, high, 8, i, 7), g |-> Field(low, high, 22, i, 7),
                      b |-> Field(low, high, 36, i, 7),
                      a |-> extractFrom128(low, high, 50 + i * 8, 8)]
      [] type = 6 -> [r |-> Field(low, high, 7, i, 7), g |-> Field(low, high, 21, i, 7),
                      b |-> Field(low, high, 35, i, 7), a |-> Field(low, high, 49, i, 7)]
      [] type = 7 -> [r |-> Field(low, high, 14, i, 5), g |-> Field(low, high, 34, i, 5),
                      b |-> Field(low, high, 54, i, 5), a |-> Field(low, high, 74, i, 5)]
      [] OTHER -> [r |-> 0, g |-> 0, b |-> 0, a |-> 0]

\* extractRawEndpoints, lines 243-316
extractRawEndpoints(low, high, type, numSubsets) ==
    [k \in 1..(numSubsets * 2) |-> RawEndpoint(low, high, type, k - 1)]

\* extractPBits, lines 318-356
extractPBits(low, high, type) ==
    CASE type = 0 -> [k \in 1..6 |-> extract1(high, 77 - 64 + k - 1)]
      [] type = 1 -> <<extract1(high, 80 - 64), extract1(high, 81 - 64)>>
      [] type = 3 -> [k \in 1..4 |-> extract1(high, 94 - 64 + k - 1)]
      [] type = 6 -> <<extract1(low, 63), extract1(high, 0)>>
      [] type = 7 -> [k \in 1..4 |-> extract1(high, 94 - 64 + k - 1)]
      [] OTHER -> <<>>

\* lines 358-364
hasPBits(type) == type \in {0, 1, 3, 6, 7}
hasAlpha(type) == type \in {4, 5, 6, 7}

\* p-bits handed out in turn, never shared by a subset
PBitOfPerEndpoint(type, pBits, k) == pBits[((k - 1) % Len(pBits)) + 1]

\* lines 381-395: the p-bit of endpoints[k - 1]: shared by the two endpoints
\* of a subset in type 1, its own otherwise
PBitOf(type, pBits, k) ==
    IF type = 1 THEN pBits[((k - 1) \div 2) + 1] ELSE pBits[k]

\* lines 373-395: ep <<= 1, then |= the p-bit (alpha only when the type has alpha)
WithPBit(ep, type, pbit) ==
    [r |-> BitOr(ep.r * 2, pbit), g |-> BitOr(ep.g * 2, pbit), b |-> BitOr(ep.b * 2, pbit),
     a |-> IF type # 1 /\ hasAlpha(type) THEN BitOr(ep.a * 2, pbit) ELSE ep.a * 2]

\* lines 367-395
ApplyPBits(low, high, endpoints, type) ==
    IF hasPBits(type)
    THEN [k \in 1..Len(endpoints) |->
            WithPBit(endpoints[k], type, PBitOf(type, extractPBits(low, high, type), k))]
    ELSE endpoints

\* (c << (8 - prec)) | (c >> (prec - (8 - prec))), lines 402-407
Expand(c, prec) == BitOr(c * (2 ^ (8 - prec)), c \div (2 ^ (prec - (8 - prec))))

\* lines 400-415: one endpoint at 8 bits
Expanded(ep, type) ==
    [r |-> Expand(ep.r, getColorComponentPrecision(type)),
     g |-> Expand(ep.g, getColorComponentPrecision(type)),
     b |-> Expand(ep.b, getColorComponentPrecision(type)),
     a |-> IF hasAlpha(type) /\ getAlphaComponentPrecision(type) > 0
           THEN Expand(ep.a, getAlphaComponentPrecision(type))
           ELSE 255]

\* finalizeEndpoints, lines 366-417
finalizeEndpoints(low, high, endpoints, type) ==
    [k \in 1..Len(endpoints) |-> Expanded(ApplyPBits(low, high, endpoints, type)[k], type)]

\* getPartitionIndex, lines 419-423
getPartitionIndex(numSubsets, partitionSetId, pixelIndex) ==
    IF numSubsets = 1 THEN 0
    ELSE IF numSubsets = 2 THEN SUBSETS_2_PARTITION_TABLE[partitionSetId + 1][pixelIndex + 1]
    ELSE SUBSETS_3_PARTITION_TABLE[partitionSetId + 1][pixelIndex + 1]

\* getIndexBegin, lines 425-437
getIndexBegin(type, bitCount, isAlpha) ==
    CASE type = 0 -> 83
      [] type = 1 -> 82
      [] type = 2 -> 99
      [] type = 3 -> 98
      [] type = 4 -> (IF bitCount = 2 THEN 50 ELSE 81)
      [] type = 5 -> (IF isAlpha THEN 97 ELSE 66)
      [] type = 6 -> 65
      [] type = 7 -> 98
      [] OTHER -> 0

\* an index field that is never narrowed at an anchor
getIndexBitCountNoAnchor(numSubsets, partitionIndex, bitCount, pixelIndex) ==
    IF pixelIndex = 0 THEN bitCount - 1 ELSE bitCount

\* getIndexBitCount, lines 439-452
getIndexBitCount(numSubsets, partitionIndex, bitCount, pixelIndex) ==
    IF pixelIndex = 0 THEN bitCount - 1
    ELSE IF numSubsets = 2 /\ pixelIndex = SUBSETS_2_ANCHOR_INDICES[partitionIndex + 1]
    THEN bitCount - 1
    ELSE IF numSubsets = 3 /\ (\/ pixelIndex = SUBSETS_3_ANCHOR_INDICES_2[partitionIndex + 1]
                               \/ pixelIndex = SUBSETS_3_ANCHOR_INDICES_3[partitionIndex + 1])
    THEN bitCount - 1
    ELSE bitCount

\* lines 469-481: three subsets
IndexOffset3(anchor2, anchor3, bitCount, pixelIndex) ==
    IF pixelIndex <= anchor2 /\ pixelIndex <= anchor3 THEN bitCount * pixelIndex - 1
    ELSE IF pixelIndex > anchor2 /\ pixelIndex > anchor3 THEN bitCount * pixelIndex - 3
    ELSE bitCount * pixelIndex - 2

\* getIndexOffset, lines 454-484
getIndexOffset(type, numSubsets, partitionIndex, bitCount, pixelIndex) ==
    IF pixelIndex = 0 THEN 0
    ELSE IF numSubsets = 1 THEN bitCount * pixelIndex - 1
    ELSE IF numSubsets = 2
    THEN (IF pixelIndex <= SUBSETS_2_ANCHOR_INDICES[partitionIndex + 1]
          THEN bitCount * pixelIndex - 1
          ELSE bitCount * pixelIndex - 2)
    ELSE IF numSubsets = 3
    THEN IndexOffset3(SUBSETS_3_ANCHOR_INDICES_2[partitionIndex + 1],
                      SUBSETS_3_ANCHOR_INDICES_3[partitionIndex + 1], bitCount, pixelIndex)
    ELSE 0

\* getColorIndex, lines 486-491
getColorIndex(low, high, type, numSubsets, partitionIndex, bitCount, pixelIndex) ==
    extractFrom128(low, high,
        getIndexBegin(type, bitCount, FALSE)
            + getIndexOffset(type, numSubsets, partitionIndex, bitCount, pixelIndex),
        getIndexBitCount(numSubsets, partitionIndex, bitCount, pixelIndex))

\* getAlphaIndex, lines 493-499
getAlphaIndex(low, high, type, numSubsets, partitionIndex, bitCount, pixelIndex) ==
    IF bitCount = 0 THEN 0
    ELSE extractFrom128(low, high,
            getIndexBegin(type, bitCount, TRUE)
                + getIndexOffset(type, numSubsets, partitionIndex, bitCount, pixelIndex),
            getIndexBitCount(numSubsets, partitionIndex, bitCount, pixelIndex))

\* swapChannels, lines 501-509
swapChannels(color, rotation) ==
    CASE rotation = 1 -> [r |-> color.a, g |-> color.g, b |-> color.b, a |-> color.r]
      [] rotation = 2 -> [r |-> color.r, g |-> color.a, b |-> color.b, a |-> color.g]
      [] rotation = 3 -> [r |-> color.r, g |-> color.g, b |-> color.a, a |-> color.b]
      [] OTHER -> color

\* lines 543-548: the colour between the endpoints ep0 and ep1
Interpolated(ep0, ep1, colorIndex, alphaIndex, colorBitCount, alphaBitCount) ==
    [r |-> interpolateByte(ep0.r, ep1.r, colorIndex, colorBitCount),
     g |-> interpolateByte(ep0.g, ep1.g, colorIndex, colorBitCount),
     b |-> interpolateByte(ep0.b, ep1.b, colorIndex, colorBitCount),
     a |-> interpolateByte(ep0.a, ep1.a, alphaIndex,
                           IF alphaBitCount # 0 THEN alphaBitCount ELSE colorBitCount)]

\* lines 536-548 for the subset of the texel
TexelOfSubset(low, high, type, numSubsets, partitionSetId, endpoints, subsetIndex, i) ==
    Interpolated(endpoints[2 * subsetIndex + 1], endpoints[2 * subsetIndex + 2],
        getColorIndex(low, high, type, numSubsets, partitionSetId,
                      getColorIndexBitCount(low, type), i),
        getAlphaIndex(low, high, type, numSubsets, partitionSetId,
                      getAlphaIndexBitCount(low, type), i),
        getColorIndexBitCount(low, type), getAlphaIndexBitCount(low, type))

\* lines 535-552: texel i of a block of the type, after the rotation
Texel(low, high, type, numSubsets, partitionSetId, endpoints, i) ==
    swapChannels(
        TexelOfSubset(low, high, type, numSubsets, partitionSetId, endpoints,
                      getPartitionIndex(numSubsets, partitionSetId, i), i),
        getRotationBits(low, type))

\* ------------------------------------------------------------------------
\* Bc7Block.decode as a state machine: one block, one texel a step

\* lines 166-171: lowBits and highBits, each kept as its 8 bytes
lowBits(data) == SubSeq(data, 1, 8)
highBits(data) == SubSeq(data, 9, 16)

\* the bytes 2..15 of the blocks decoded
Bc7Fills ==
    {[k \in 1..14 |-> 0], [k \in 1..14 |-> 255],
     <<165, 90, 60, 195, 15, 240, 51, 204, 85, 170, 102, 153, 129, 126>>}

\* the bytes 0 and 1 of the blocks decoded: every mode, every partition,
\* every rotation and both index modes of mode 4
Bc7Heads ==
    {<<b0, b1>> : b0 \in 0..255, b1 \in 0..3} \cup {<<128, b1>> : b1 \in 0..63}

Bc7Blocks == {h \o f : h \in Bc7Heads, f \in Bc7Fills}

\* the byte stream decoders' variables while a texture decoder is the one called
CodecIdle ==
    /\ LzssIdle
    /\ Lz4Idle
    /\ LzoIdle

\* new Bc7Block(data), lines 166-171
Bc7Init ==
    /\ CodecIdle
    /\ BcnIdle
    /\ EddsIdle
    /\ calls = NoCalls
    /\ bc7Data \in Bc7Blocks
    /\ bc7Pc = "start"
    /\ bc7 = <<>>
    /\ bc7Output = <<>>
    /\ bc7Log = <<>>

\* lines 515-524: the colour of every texel of a block of the reserved type
Bc7Magenta == [k \in 1..64 |-> IF k % 4 = 2 THEN 0 ELSE 255]

\* lines 526-533: the locals of decode() before the texel loop
Bc7Locals(low, high, type) ==
    [type |-> type,
     numSubsets |-> getNumSubsets(type),
     partitionSetId |-> getPartitionSetId(low, type),
     rotation |-> getRotationBits(low, type),
     endpoints |-> finalizeEndpoints(low, high,
                       extractRawEndpoints(low, high, type, getNumSubsets(type)), type),
     colorBitCount |-> getColorIndexBitCount(low, type),
     alphaBitCount |-> getAlphaIndexBitCount(low, type),
     i |-> 0]

\* decode(), lines 511-533: up to the texel loop
Bc7Begin ==
    /\ bc7Pc = "start"
    /\ IF getType(lowBits(bc7Data)) = 8
       THEN /\ bc7' = [type |-> 8]
            /\ bc7Output' = Bc7Magenta
            /\ bc7Log' = [raw |-> <<>>, subsets |-> <<>>]
            /\ bc7Pc' = "done"
       ELSE /\ bc7' = Bc7Locals(lowBits(bc7Data), highBits(bc7Data),
                                getType(lowBits(bc7Data)))
            /\ bc7Output' = Uint8Array(64)
            /\ bc7Log' = [raw |-> extractRawEndpoints(lowBits(bc7Data), highBits(bc7Data),
                                     getType(lowBits(bc7Data)),
                                     getNumSubsets(getType(lowBits(bc7Data)))),
                          subsets |-> <<>>]
            /\ bc7Pc' = "texels"
    /\ UNCHANGED bc7Data
    /\ UNCHANGED notBc7Vars

\* lines 553-556: output[i * 4 ...] = color
Bc7Store(output, i, color) ==
    SubSeq(output, 1, 4 * i) \o <<color.r, color.g, color.b, color.a>>
        \o SubSeq(output, 4 * i + 5, Len(output))

\* decode(), lines 535-559: one pass of the texel loop, and the return
Bc7Texel ==
    /\ bc7Pc = "texels"
    /\ bc7Output' = Bc7Store(bc7Output, bc7.i,
            Texel(lowBits(bc7Data), highBits(bc7Data), bc7.type, bc7.numSubsets,
                  bc7.partitionSetId, bc7.endpoints, bc7.i))
    /\ bc7Log' = [bc7Log EXCEPT !.subsets =
            Append(@, getPartitionIndex(bc7.numSubsets, bc7.partitionSetId, bc7.i))]
    /\ bc7' = [bc7 EXCEPT !.i = @ + 1]
    /\ bc7Pc' = IF bc7.i + 1 < 16 THEN "texels" ELSE "done"
    /\ UNCHANGED bc7Data
    /\ UNCHANGED notBc7Vars

Bc7Next ==
    \/ Bc7Begin
    \/ Bc7Texel

SpecBc7 == Bc7Init /\ [][Bc7Next]_vars

\* ------------------------------------------------------------------------
\* Bc7Block.decode: the reserved type

\* C12: a block whose byte 0 is 0 decodes, whatever its other 15 bytes are,
\* to sixteen texels (255, 0, 255, 255), and the decode comes to its end
\* without reading an endpoint or an index.
C12_ReservedBlockIsMagenta ==
    (bc7Pc = "done" /\ bc7Data[1] = 0) =>
        /\ Len(bc7Output) = 64
        /\ \A t \in 0..15 :
              /\ bc7Output[4 * t + 1] = 255
              /\ bc7Output[4 * t + 2] = 0
              /\ bc7Output[4 * t + 3] = 255
              /\ bc7Output[4 * t + 4] = 255
        /\ bc7Log.subsets = <<>>

C12_Witness ==
    /\ bc7Pc = "done" /\ bc7Data[1] = 0
    /\ bc7Data[2] = 3 /\ bc7Data[16] = 126

\* ------------------------------------------------------------------------
\* Bc7Block: the index fields

\* texel 0 and the anchor texels of a partition
AnchorTexels(numSubsets, partitionSetId) ==
    CASE numSubsets = 2 -> {0, SUBSETS_2_ANCHOR_INDICES[partitionSetId + 1]}
      [] numSubsets = 3 -> {0, SUBSETS_3_ANCHOR_INDICES_2[partitionSetId + 1],
                               SUBSETS_3_ANCHOR_INDICES_3[partitionSetId + 1]}
      [] OTHER -> {0}

\* the width of the index field of texel i
FieldWidth(numSubsets, partitionSetId, bitCount, i) ==
    IF i \in AnchorTexels(numSubsets, partitionSetId) THEN bitCount - 1 ELSE bitCount

\* the sum of the widths of the index fields of the texels 0..i-1
RECURSIVE WidthsBefore(_, _, _, _)
WidthsBefore(numSubsets, partitionSetId, bitCount, i) ==
    IF i = 0 THEN 0
    ELSE WidthsBefore(numSubsets, partitionSetId, bitCount, i - 1)
             + FieldWidth(numSubsets, partitionSetId, bitCount, i - 1)

\* the index set of the width bitCount is packed without gap or overlap
Packed(type, numSubsets, partitionSetId, bitCount) ==
    \A i \in 0..15 :
        /\ getIndexBitCount(numSubsets, partitionSetId, bitCount, i)
               = FieldWidth(numSubsets, partitionSetId, bitCount, i)
        /\ getIndexOffset(type, numSubsets, partitionSetId, bitCount, i)
               = WidthsBefore(numSubsets, partitionSetId, bitCount, i)


\* the bit after the last field of an index set
SetEnd(type, numSubsets, partitionSetId, bitCount, isAlpha) ==
    getIndexBegin(type, bitCount, isAlpha)
        + WidthsBefore(numSubsets, partitionSetId, bitCount, 16)

\* C18: for the mode and the partition of the block, the offset of the
\* index field of texel i is the sum of the widths of the fields of the
\* texels before it, the width being bitCount - 1 for texel 0 and for each
\* anchor texel (one anchor with 2 subsets, two with 3) and bitCount for
\* the others; a second index set begins where the first one ends, and the
\* last field of the trailing set ends at bit 127.
C18_IndexFieldsArePacked ==
    (bc7Pc \in {"texels", "done"} /\ bc7.type # 8) =>
        /\ Cardinality(AnchorTexels(bc7.numSubsets, bc7.partitionSetId)) = bc7.numSubsets
        /\ Packed(bc7.type, bc7.numSubsets, bc7.partitionSetId, bc7.colorBitCount)
        /\ IF bc7.alphaBitCount = 0
              \/ getIndexBegin(bc7.type, bc7.alphaBitCount, TRUE)
                     = getIndexBegin(bc7.type, bc7.colorBitCount, FALSE)
           THEN SetEnd(bc7.type, bc7.numSubsets, bc7.partitionSetId,
                       bc7.colorBitCount, FALSE) = 128
           ELSE /\ Packed(bc7.type, bc7.numSubsets, bc7.partitionSetId, bc7.alphaBitCount)
                /\ {SetEnd(bc7.type, bc7.numSubsets, bc7.partitionSetId,
                           bc7.colorBitCount, FALSE),
                    SetEnd(bc7.type, bc7.numSubsets, bc7.partitionSetId,
                           bc7.alphaBitCount, TRUE)}
                     = {128, Max(getIndexBegin(bc7.type, bc7.colorBitCount, FALSE),
                                 getIndexBegin(bc7.type, bc7.alphaBitCount, TRUE))}

C18_Witness ==
    /\ bc7Pc = "done" /\ bc7.type = 2 /\ bc7.partitionSetId = 63
    /\ bc7Data[16] = 126

\* ------------------------------------------------------------------------
\* Bc7Block: the mode and the subsets

\* the index of the lowest set bit of a byte that is not 0
LowestSetBit(b) == CHOOSE m \in 0..7 : b % (2 ^ (m + 1)) = 2 ^ m

\* C19: a block with a byte 0 that is not 0 has the index of the lowest set
\* bit of byte 0 for its mode, 3 subsets in the modes 0 and 2, 2 in the
\* modes 1, 3 and 7, 1 in the modes 4, 5 and 6, and in the modes of 1
\* subset every texel is of subset 0.
C19_ModeIsLowestSetBit ==
    (bc7Pc \in {"texels", "done"} /\ bc7Data[1] # 0) =>
        /\ bc7.type = LowestSetBit(bc7Data[1])
        /\ bc7.type \in {0, 2} => bc7.numSubsets = 3
        /\ bc7.type \in {1, 3, 7} => bc7.numSubsets = 2
        /\ bc7.type \in {4, 5, 6} => bc7.numSubsets = 1
        /\ Len(bc7.endpoints) = 2 * bc7.numSubsets
        /\ bc7.numSubsets = 1 =>
              \A k \in 1..Len(bc7Log.subsets) : bc7Log.subsets[k] = 0

C19_Witness ==
    /\ bc7Pc = "done" /\ bc7Data[1] = 208 /\ bc7Data[2] = 3
    /\ bc7.type = 4 /\ Len(bc7Log.subsets) = 16

\* ------------------------------------------------------------------------
\* Bc7Block.finalizeEndpoints: the p-bits

\* bit n of the 128 bits of the block
BlockBit(n) == (bc7Data[(n \div 8) + 1] \div (2 ^ (n % 8))) % 2

\* the first p-bit of a mode that has p-bits
FirstPBit(type) ==
    CASE type = 0 -> 77 [] type = 1 -> 80 [] type = 6 -> 63 [] OTHER -> 94

\* the component v of prec bits, its high bits repeated below it up to 8 bits
Replicated(v, prec) == v * (2 ^ (8 - prec)) + v \div (2 ^ (2 * prec - 8))

\* the colour component v of endpoint i (from 0) of the block, finalised
Finalised(type, v, i, prec) ==
    IF type \in {0, 3, 6, 7} THEN Replicated(2 * v + BlockBit(FirstPBit(type) + i), prec)
    ELSE IF type = 1 THEN Replicated(2 * v + BlockBit(FirstPBit(type) + (i \div 2)), prec)
    ELSE Replicated(v, prec)

\* C20: the modes 0, 3, 6 and 7 shift each colour component of endpoint i
\* left by 1 and put p-bit i in the lowest bit (alpha too in the modes 6
\* and 7), mode 1 does so with p-bit s for both endpoints of subset s, the
\* modes 2, 4 and 5 leave the components as read, and the expansion to 8
\* bits is applied to the result.
C20_PBitsBeforeExpansion ==
    (bc7Pc \in {"texels", "done"} /\ bc7.type # 8) =>
        \A i \in 0..(Len(bc7.endpoints) - 1) :
            /\ bc7.endpoints[i + 1].r = Finalised(bc7.type, bc7Log.raw[i + 1].r, i,
                                            getColorComponentPrecision(bc7.type))
            /\ bc7.endpoints[i + 1].g = Finalised(bc7.type, bc7Log.raw[i + 1].g, i,
                                            getColorComponentPrecision(bc7.type))
            /\ bc7.endpoints[i + 1].b = Finalised(bc7.type, bc7Log.raw[i + 1].b, i,
                                            getColorComponentPrecision(bc7.type))
            /\ bc7.endpoints[i + 1].a =
                  IF bc7.type \in {6, 7}
                  THEN Replicated(2 * bc7Log.raw[i + 1].a
                                      + BlockBit(FirstPBit(bc7.type) + i),
                                  getAlphaComponentPrecision(bc7.type))
                  ELSE IF bc7.type \in {4, 5}
                  THEN Replicated(bc7Log.raw[i + 1].a, getAlphaComponentPrecision(bc7.type))
                  ELSE 255

C20_Witness ==
    /\ bc7Pc = "done" /\ bc7.type = 1
    /\ BlockBit(80) # BlockBit(81)
    /\ bc7Log.raw[3].r # bc7Log.raw[4].r

\* ------------------------------------------------------------------------
\* Bc7Block.decode: the range of the endpoints and of the texels

\* texel t of the output as it was before the rotation: swapChannels is its
\* own inverse
Unrotated(t) ==
    swapChannels([r |-> bc7Output[4 * t + 1], g |-> bc7Output[4 * t + 2],
                  b |-> bc7Output[4 * t + 3], a |-> bc7Output[4 * t + 4]],
                 bc7.rotation)

\* the colour index and the alpha index of texel t, as decode() reads them
ColorIndexAt(t) ==
    getColorIndex(lowBits(bc7Data), highBits(bc7Data), bc7.type, bc7.numSubsets,
                  bc7.partitionSetId, bc7.colorBitCount, t)

AlphaIndexAt(t) ==
    getAlphaIndex(lowBits(bc7Data), highBits(bc7Data), bc7.type, bc7.numSubsets,
                  bc7.partitionSetId, bc7.alphaBitCount, t)

\* the width of the index that selects the alpha of a texel
AlphaWidth == IF bc7.alphaBitCount # 0 THEN bc7.alphaBitCount ELSE bc7.colorBitCount

\* v is e0 when the index is 0, e1 when the index is the largest of its
\* width, and lies between the two in every case
Blend(v, e0, e1, index, width) ==
    /\ Min(e0, e1) <= v /\ v <= Max(e0, e1)
    /\ index = 0 => v = e0
    /\ index = 2 ^ width - 1 => v = e1

\* texel t is a blend of the endpoints e0 and e1 of its subset
BlendOf(c, e0, e1, t) ==
    /\ Blend(c.r, e0.r, e1.r, ColorIndexAt(t), bc7.colorBitCount)
    /\ Blend(c.g, e0.g, e1.g, ColorIndexAt(t), bc7.colorBitCount)
    /\ Blend(c.b, e0.b, e1.b, ColorIndexAt(t), bc7.colorBitCount)
    /\ Blend(c.a, e0.a, e1.a, AlphaIndexAt(t), AlphaWidth)

\* C21: in every mode 0..7 each component of each finalised endpoint lies in
\* 0..255; each component of a decoded texel, before the rotation, lies
\* between the components of the two endpoints of its subset, is that of
\* the first endpoint when its index is 0 and that of the second when its
\* index is the largest of the index width; and in the modes 0..3, which
\* have no alpha field, the alpha of the texel before the rotation is 255.
C21_TexelsAreBlendsOfEndpoints ==
    (bc7Pc \in {"texels", "done"} /\ bc7.type # 8) =>
        /\ \A k \in 1..Len(bc7.endpoints) :
              /\ bc7.endpoints[k].r \in 0..255 /\ bc7.endpoints[k].g \in 0..255
              /\ bc7.endpoints[k].b \in 0..255 /\ bc7.endpoints[k].a \in 0..255
        /\ \A t \in 0..(bc7.i - 1) :
              /\ BlendOf(Unrotated(t), bc7.endpoints[2 * bc7Log.subsets[t + 1] + 1],
                         bc7.endpoints[2 * bc7Log.subsets[t + 1] + 2], t)
              /\ ~hasAlpha(bc7.type) => Unrotated(t).a = 255

\* a block of mode 4 with a rotation is decoded: one texel has the largest
\* colour index, one has index 0, one lies strictly between its endpoints
C21_Witness ==
    /\ bc7Pc = "done" /\ bc7.type = 4 /\ bc7.rotation > 0
    /\ bc7.endpoints[1].r # bc7.endpoints[2].r
    /\ \E t \in 0..15 : ColorIndexAt(t) = 2 ^ bc7.colorBitCount - 1
    /\ \E t \in 0..15 : ColorIndexAt(t) = 0
    /\ \E t \in 0..15 : /\ Unrotated(t).r # bc7.endpoints[1].r
                         /\ Unrotated(t).r # bc7.endpoints[2].r

\* ------------------------------------------------------------------------
\* BC1, BC2, BC3, BC4 block decoders (decodeBC1, decodeBC2, decodeBC3, decodeBC4)

\* DataView.getUint8, getUint16, getUint32 (little endian) at a byte offset
\* that is inside the view
getUint8(data, offset) == data[offset + 1]
getUint16(data, offset) == data[offset + 1] + 256 * data[offset + 2]
getUint32Bytes(data, offset) == SubSeq(data, offset + 1, offset + 4)
getBigUint64(data, offset) == SubSeq(data, offset + 1, offset + 8)

\* ColorRgb565.toColorRgb24 with the wrong shift for the low bits of green
toColorRgb24GreenAsRed(data) ==
    [r |-> BitOr(((data \div 2048) % 32) * 8, ((data \div 2048) % 32) \div 4),
     g |-> BitOr(((data \div 32) % 64) * 4, ((data \div 32) % 64) \div 4),
     b |-> BitOr((data % 32) * 8, (data % 32) \div 4)]

\* ColorRgb565.toColorRgb24, utils lines 139-150
toColorRgb24(data) ==
    [r |-> BitOr(((data \div 2048) % 32) * 8, ((data \div 2048) % 32) \div 4),
     g |-> BitOr(((data \div 32) % 64) * 4, ((data \div 32) % 64) \div 16),
     b |-> BitOr((data % 32) * 8, (data % 32) \div 4)]

\* interpolateHalf, utils lines 154-160
interpolateHalf(c0, c1) ==
    [r |-> (c0.r + c1.r) \div 2, g |-> (c0.g + c1.g) \div 2, b |-> (c0.b + c1.b) \div 2]

\* interpolateThird, utils lines 162-176
interpolateThird(c0, c1, step) ==
    IF step = 1
    THEN [r |-> (2 * c0.r + c1.r) \div 3, g |-> (2 * c0.g + c1.g) \div 3,
          b |-> (2 * c0.b + c1.b) \div 3]
    ELSE [r |-> (c0.r + 2 * c1.r) \div 3, g |-> (c0.g + 2 * c1.g) \div 3,
          b |-> (c0.b + 2 * c1.b) \div 3]

\* interpolateByteFifth, utils lines 179-184
interpolateByteFifth(e0, e1, step) ==
    CASE step = 1 -> (4 * e0 + e1) \div 5
      [] step = 2 -> (3 * e0 + 2 * e1) \div 5
      [] step = 3 -> (2 * e0 + 3 * e1) \div 5
      [] OTHER -> (e0 + 4 * e1) \div 5

\* interpolateByteSeventh, utils lines 186-193
interpolateByteSeventh(e0, e1, step) ==
    CASE step = 1 -> (6 * e0 + e1) \div 7
      [] step = 2 -> (5 * e0 + 2 * e1) \div 7
      [] step = 3 -> (4 * e0 + 3 * e1) \div 7
      [] step = 4 -> (3 * e0 + 4 * e1) \div 7
      [] step = 5 -> (2 * e0 + 5 * e1) \div 7
      [] OTHER -> (e0 + 6 * e1) \div 7

\* the palette of three colours and black, bc1.ts lines 32-37
Bc1ColorsWithBlack(c0, c1) ==
    <<c0, c1, interpolateHalf(c0, c1), [r |-> 0, g |-> 0, b |-> 0]>>

\* the palette of four colours, decodeBC1 lines 37-42 (decodeBC2 35-40, decodeBC3 72-77)
Bc1ColorsOpaque(c0, c1) ==
    <<c0, c1, interpolateThird(c0, c1, 1), interpolateThird(c0, c1, 2)>>

\* hasAlphaOrBlack with < in the place of <=
hasAlphaOrBlackStrict(color0Data, color1Data) == color0Data < color1Data

\* bc1.ts line 28
hasAlphaOrBlack(color0Data, color1Data) == color0Data <= color1Data

\* bc1.ts lines 32-42
Bc1Colors(color0Data, color1Data) ==
    IF hasAlphaOrBlack(color0Data, color1Data)
    THEN Bc1ColorsWithBlack(toColorRgb24(color0Data), toColorRgb24(color1Data))
    ELSE Bc1ColorsOpaque(toColorRgb24(color0Data), toColorRgb24(color1Data))

\* (indices >> (i * 2)) & 0b11, bc1.ts line 52: indices as its 4 bytes
ColorIndexOf(indices, i) == (indices[(i \div 4) + 1] \div (4 ^ (i % 4))) % 4

\* bc1.ts lines 56-66: the four bytes stored for a texel
Bc1Stored(color, colorIndex, actualUseAlpha) ==
    IF actualUseAlpha /\ colorIndex = 3 THEN <<0, 0, 0, 0>>
    ELSE <<color.r, color.g, color.b, 255>>

\* bc1.ts lines 16-66: the bytes stored for texel i of the block at offset
Bc1Texel(data, offset, useAlpha, i) ==
    Bc1Stored(
        Bc1Colors(getUint16(data, offset), getUint16(data, offset + 2))
            [ColorIndexOf(getUint32Bytes(data, offset + 4), i) + 1],
        ColorIndexOf(getUint32Bytes(data, offset + 4), i),
        useAlpha /\ hasAlphaOrBlack(getUint16(data, offset), getUint16(data, offset + 2)))

\* decodeBC2 lines 52-60: the alpha of texel i, from the 8 bytes at offset
Bc2Alpha(data, offset, i) ==
    17 * ((data[offset + (i \div 2) + 1] \div (16 ^ (i % 2))) % 16)

\* the colour of texel i taken from the palette of decodeBC1
OpaqueColorAsBc1(data, offset, i) ==
    Bc1Colors(getUint16(data, offset), getUint16(data, offset + 2))
        [ColorIndexOf(getUint32Bytes(data, offset + 4), i) + 1]

\* decodeBC2 lines 21-50 (decodeBC3 lines 58-87): the colour of texel i, from
\* the colour block at offset
OpaqueColor(data, offset, i) ==
    Bc1ColorsOpaque(toColorRgb24(getUint16(data, offset)),
                    toColorRgb24(getUint16(data, offset + 2)))
        [ColorIndexOf(getUint32Bytes(data, offset + 4), i) + 1]

\* decodeBC2 lines 17-66: the bytes stored for texel i of the block at offset
Bc2Texel(data, offset, i) ==
    <<OpaqueColor(data, offset + 8, i).r, OpaqueColor(data, offset + 8, i).g,
      OpaqueColor(data, offset + 8, i).b, Bc2Alpha(data, offset, i)>>

\* the palette of eight steps, whatever the order of the endpoints
AlphaPaletteOfSevenths(alpha0, alpha1) ==
    <<alpha0, alpha1,
      interpolateByteSeventh(alpha0, alpha1, 1), interpolateByteSeventh(alpha0, alpha1, 2),
      interpolateByteSeventh(alpha0, alpha1, 3), interpolateByteSeventh(alpha0, alpha1, 4),
      interpolateByteSeventh(alpha0, alpha1, 5), interpolateByteSeventh(alpha0, alpha1, 6)>>

\* the palette of decodeAlphaBlock, bc3.ts lines 11-33 (decodeComponentBlock lines 11-33)
AlphaPalette(alpha0, alpha1) ==
    IF alpha0 > alpha1
    THEN <<alpha0, alpha1,
           interpolateByteSeventh(alpha0, alpha1, 1), interpolateByteSeventh(alpha0, alpha1, 2),
           interpolateByteSeventh(alpha0, alpha1, 3), interpolateByteSeventh(alpha0, alpha1, 4),
           interpolateByteSeventh(alpha0, alpha1, 5), interpolateByteSeventh(alpha0, alpha1, 6)>>
    ELSE <<alpha0, alpha1,
           interpolateByteFifth(alpha0, alpha1, 1), interpolateByteFifth(alpha0, alpha1, 2),
           interpolateByteFifth(alpha0, alpha1, 3), interpolateByteFifth(alpha0, alpha1, 4),
           0, 255>>

\* decodeAlphaBlock, bc3.ts lines 8-43: alpha[i] of the 64 bits alphaData
decodeAlphaBlock(alphaData, i) ==
    AlphaPalette(alphaData[1], alphaData[2])[extract(alphaData, 16 + i * 3, 3) + 1]

\* decodeComponentBlock, lines 8-43: output[i]
decodeComponentBlock(componentData, i) ==
    AlphaPalette(componentData[1], componentData[2])[extract(componentData, 16 + i * 3, 3) + 1]

\* bc3.ts lines 54-94: the bytes stored for texel i of the block at offset
Bc3Texel(data, offset, i) ==
    <<OpaqueColor(data, offset + 8, i).r, OpaqueColor(data, offset + 8, i).g,
      OpaqueColor(data, offset + 8, i).b,
      decodeAlphaBlock(getBigUint64(data, offset), i)>>

\* decodeBC4 lines 69-76: the bytes of a texel after the two stores
Bc4Stored(component, outputChannel) ==
    [c \in 1..4 |-> IF c = outputChannel + 1 THEN component
                    ELSE IF c = 4 THEN 255 ELSE 0]

\* decodeBC4 lines 59-76: the bytes stored for texel i of the block at offset
Bc4Texel(data, offset, outputChannel, i) ==
    Bc4Stored(decodeComponentBlock(getBigUint64(data, offset), i), outputChannel)

\* ------------------------------------------------------------------------
\* decodeBC1, decodeBC2, decodeBC3, decodeBC4, decodeBC7: the block loop

MaxWidth == 5
MaxHeight == 5

\* Math.ceil(n / 4), n a natural number
Ceil4(n) == (n + 3) \div 4

\* offset += 8 (decodeBC1 line 72, decodeBC4 line 81), += 16 (the others)
BlockBytes(format) == IF format \in {"BC1", "BC4"} THEN 8 ELSE 16

\* decode() of the Bc7Block of the 16 bytes at offset: the bytes of texel i
Bc7TexelBytes(color) == <<color.r, color.g, color.b, color.a>>

Bc7TexelOf(low, high, type, i) ==
    IF type = 8 THEN <<255, 0, 255, 255>>
    ELSE Bc7TexelBytes(
            Texel(low, high, type, getNumSubsets(type), getPartitionSetId(low, type),
                  finalizeEndpoints(low, high,
                      extractRawEndpoints(low, high, type, getNumSubsets(type)), type),
                  i))

\* decodeBC7 lines 573-579: blockData, then new Bc7Block(blockData).decode()
Bc7ImageTexel(data, offset, i) ==
    Bc7TexelOf(lowBits(SubSeq(data, offset + 1, offset + 16)),
               highBits(SubSeq(data, offset + 1, offset + 16)),
               getType(lowBits(SubSeq(data, offset + 1, offset + 16))), i)

\* the bytes a decoder stores for texel i of the block at offset
BlockTexel(call, offset, i) ==
    CASE call.format = "BC1" -> Bc1Texel(call.data, offset, call.useAlpha, i)
      [] call.format = "BC2" -> Bc2Texel(call.data, offset, i)
      [] call.format = "BC3" -> Bc3Texel(call.data, offset, i)
      [] call.format = "BC4" -> Bc4Texel(call.data, offset, call.channel, i)
      [] OTHER -> Bc7ImageTexel(call.data, offset, i)

\* the stores rgba[dstIdx .. dstIdx + 3] = four; decodeBC4 stores the byte
\* of its channel a second time (lines 70-76); a store past the end of a
\* Uint8Array is dropped
StoreAt(st, dstIdx, four, visit, again) ==
    IF dstIdx + 4 > Len(st.rgba) THEN st
    ELSE
    [rgba |-> SubSeq(st.rgba, 1, dstIdx) \o four
                  \o SubSeq(st.rgba, dstIdx + 5, Len(st.rgba)),
     stores |-> SubSeq(st.stores, 1, dstIdx)
                  \o [c \in 1..4 |-> st.stores[dstIdx + c] + (IF c = again + 1 THEN 2 ELSE 1)]
                  \o SubSeq(st.stores, dstIdx + 5, Len(st.stores)),
     visits |-> SubSeq(st.visits, 1, dstIdx \div 4)
                  \o <<Append(st.visits[(dstIdx \div 4) + 1], visit)>>
                  \o SubSeq(st.visits, (dstIdx \div 4) + 2, Len(st.visits))]

\* px < width && py < height without the test of px
InBoundsRowsOnly(px, py, width, height) == py < height

\* decodeBC1 line 50 (the same line in every decoder)
InBounds(px, py, width, height) == px < width /\ py < height

\* the loops over y and x of a block (decodeBC1 lines 45-70), from texel i on
RECURSIVE StoreTexels(_, _, _, _)
StoreTexels(st, call, loc, i) ==
    IF i = 16 THEN st
    ELSE StoreTexels(
            IF InBounds(loc.bx * 4 + (i % 4), loc.by * 4 + (i \div 4), call.width, call.height)
            THEN StoreAt(st,
                    ((loc.by * 4 + (i \div 4)) * call.width + loc.bx * 4 + (i % 4)) * 4,
                    BlockTexel(call, loc.offset, i),
                    <<loc.by * loc.blocksX + loc.bx, i>>,
                    IF call.format = "BC4" THEN call.channel ELSE 4)
            ELSE st,
            call, loc, i + 1)

\* the loop variables after a block: bx++, then by++ (decodeBC1 lines 14-15, 72)
NextBlock(loc, size) ==
    IF loc.bx + 1 < loc.blocksX
    THEN [loc EXCEPT !.bx = @ + 1, !.offset = @ + size]
    ELSE [loc EXCEPT !.bx = 0, !.by = @ + 1, !.offset = @ + size]

\* lines 9-13 of each decoder
BcnStart ==
    /\ bcnPc = "start"
    /\ rgba' = Uint8Array(bcnCall.width * bcnCall.height * 4)
    /\ bcn' = [blocksX |-> Ceil4(bcnCall.width), blocksY |-> Ceil4(bcnCall.height),
               by |-> 0, bx |-> 0, offset |-> 0]
    /\ bcnLog' = [stores |-> Uint8Array(bcnCall.width * bcnCall.height * 4),
                  visits |-> [t \in 1..(bcnCall.width * bcnCall.height) |-> <<>>]]
    /\ bcnPc' = "blocks"
    /\ UNCHANGED <<bcnCall, bcnResult>>
    /\ UNCHANGED notBcnVars

\* the block the loops are at has been decoded into st
BcnStored(st, size) ==
    /\ rgba' = st.rgba
    /\ bcnLog' = [stores |-> st.stores, visits |-> st.visits]
    /\ bcn' = NextBlock(bcn, size)
    /\ IF NextBlock(bcn, size).by < bcn.blocksY
       THEN bcnPc' = "blocks" /\ bcnResult' = "none"
       ELSE bcnPc' = "done" /\ bcnResult' = "ok"

\* one pass of the loop over the blocks of a decoder; a read past the end of
\* the DataView raises a RangeError
BcnBlock(format) ==
    /\ bcnPc = "blocks"
    /\ bcnCall.format = format
    /\ IF bcn.offset + BlockBytes(format) > Len(bcnCall.data)
       THEN /\ bcnPc' = "done"
            /\ bcnResult' = "range"
            /\ UNCHANGED <<rgba, bcn, bcnLog>>
       ELSE BcnStored(StoreTexels([rgba |-> rgba, stores |-> bcnLog.stores,
                                   visits |-> bcnLog.visits], bcnCall, bcn, 0),
                      BlockBytes(format))
    /\ UNCHANGED bcnCall
    /\ UNCHANGED notBcnVars

\* decodeBC1, lines 14-74
Bc1Block == BcnBlock("BC1")

\* decodeBC2, lines 14-76
Bc2Block == BcnBlock("BC2")

\* decodeBC3, lines 51-102
Bc3Block == BcnBlock("BC3")

\* decodeBC4, lines 55-85
Bc4Block == BcnBlock("BC4")

\* decodeBC7, lines 570-601
Bc7ImageBlock == BcnBlock("BC7")

BcnNext ==
    \/ BcnStart
    \/ Bc1Block
    \/ Bc2Block
    \/ Bc3Block
    \/ Bc4Block
    \/ Bc7ImageBlock

\* ------------------------------------------------------------------------
\* the calls of the image decoders

\* a 16 bit value as its two bytes, low byte first
U16(v) == <<v % 256, v \div 256>>

\* color0Data and color1Data of the BC1 blocks of an image of one block
Bc1ColorData == {0, 31, 2016, 4660, 4661, 33808, 63488, 65535}

\* the index maps of the BC1 blocks of an image of one block
Bc1IndexMaps == {<<0, 0, 0, 0>>, <<255, 255, 255, 255>>, <<228, 27, 78, 177>>, <<85, 170, 0, 192>>}

Bc1BlocksOfOne ==
    {U16(c0) \o U16(c1) \o ix : c0 \in Bc1ColorData, c1 \in Bc1ColorData, ix \in Bc1IndexMaps}

\* the blocks of the images of several blocks
Bc1BlocksOfMany ==
    {U16(4660) \o U16(63488) \o <<228, 27, 78, 177>>,
     U16(65535) \o U16(0) \o <<0, 0, 0, 0>>,
     U16(2016) \o U16(2016) \o <<255, 255, 255, 255>>}

Bc2Blocks ==
    {<<1, 35, 69, 103, 137, 171, 205, 239>> \o b : b \in Bc1BlocksOfMany}

Bc3Blocks ==
    {<<200, 10, 136, 198, 250, 136, 198, 250>> \o U16(4660) \o U16(63488) \o <<228, 27, 78, 177>>,
     <<10, 200, 136, 198, 250, 136, 198, 250>> \o U16(65535) \o U16(0) \o <<0, 0, 0, 0>>,
     <<77, 77, 255, 255, 255, 0, 0, 0>> \o U16(2016) \o U16(2016) \o <<255, 255, 255, 255>>}

Bc4Blocks ==
    {<<200, 10, 136, 198, 250, 136, 198, 250>>,
     <<10, 200, 136, 198, 250, 136, 198, 250>>,
     <<77, 77, 255, 255, 255, 0, 0, 0>>}

Bc7ImageBlocks ==
    {<<0, 3>> \o <<165, 90, 60, 195, 15, 240, 51, 204, 85, 170, 102, 153, 129, 126>>,
     <<64, 1>> \o <<165, 90, 60, 195, 15, 240, 51, 204, 85, 170, 102, 153, 129, 126>>,
     <<182, 2>> \o [k \in 1..14 |-> 255]}

\* the blocks an image of n blocks is made of
BcnBlocks(format, n) ==
    CASE format = "BC1" -> IF n = 1 THEN Bc1BlocksOfOne ELSE Bc1BlocksOfMany
      [] format = "BC2" -> Bc2Blocks
      [] format = "BC3" -> Bc3Blocks
      [] format = "BC4" -> Bc4Blocks
      [] OTHER -> Bc7ImageBlocks

RECURSIVE BlockSeqs(_, _)
BlockSeqs(blocks, n) ==
    IF n = 0 THEN {<<>>}
    ELSE {b \o rest : b \in blocks, rest \in BlockSeqs(blocks, n - 1)}

BcnFormats == {"BC1", "BC2", "BC3", "BC4", "BC7"}

\* the calls decodeBCn(data, width, height[, useAlpha | channel]): data holds
\* the blocks of the image, or lacks the last byte of the last block
BcnCalls ==
    {[format |-> c[1], width |-> c[2], height |-> c[3],
      useAlpha |-> c[4], channel |-> c[5], data |-> c[6]] :
        c \in UNION {
            {<<f, w, h, ua, ch, IF short THEN SubSeq(d, 1, Len(d) - 1) ELSE d>> :
                d \in BlockSeqs(BcnBlocks(f, Ceil4(w) * Ceil4(h)), Ceil4(w) * Ceil4(h)),
                short \in BOOLEAN,
                ua \in IF f = "BC1" THEN BOOLEAN ELSE {FALSE},
                ch \in IF f = "BC4" THEN 0..3 ELSE {0}} :
            f \in BcnFormats, w \in 1..MaxWidth, h \in 1..MaxHeight}}

BcnInit ==
    /\ CodecIdle
    /\ Bc7Idle
    /\ EddsIdle
    /\ calls = NoCalls
    /\ bcnCall \in BcnCalls
    /\ bcn = <<>>
    /\ rgba = <<>>
    /\ bcnPc = "start"
    /\ bcnResult = "none"
    /\ bcnLog = <<>>

SpecBcn == BcnInit /\ [][BcnNext]_vars

\* ------------------------------------------------------------------------
\* decodeBC1: the palettes

\* the four bytes of texel t of the image
TexelBytes(t) == SubSeq(rgba, 4 * t + 1, 4 * t + 4)

\* the texels of the image a block has been decoded into
Visited == {t \in 0..(Len(bcnLog.visits) - 1) : bcnLog.visits[t + 1] # <<>>}

\* the block that was decoded last into texel t, and the place of t in it
BlockOf(t) == bcnLog.visits[t + 1][Len(bcnLog.visits[t + 1])][1]
PlaceOf(t) == bcnLog.visits[t + 1][Len(bcnLog.visits[t + 1])][2]

\* the 16 bit value at the byte offset o of the data of the call
Raw16(o) == bcnCall.data[o + 1] + 256 * bcnCall.data[o + 2]

\* the two bits of the index map of the BC1 block at offset o for place i
Index2(o, i) == (bcnCall.data[o + 5 + (i \div 4)] \div (4 ^ (i % 4))) % 4

\* the 5, 6 and 5 bits of a colour, each with its high bits repeated below
Rgb565(v) ==
    <<((v \div 2048) % 32) * 8 + ((v \div 2048) % 32) \div 4,
      ((v \div 32) % 64) * 4 + ((v \div 32) % 64) \div 16,
      (v % 32) * 8 + (v % 32) \div 4>>

Half(a, b) == [c \in 1..3 |-> (a[c] + b[c]) \div 2]
OneThird(a, b) == [c \in 1..3 |-> (2 * a[c] + b[c]) \div 3]
TwoThirds(a, b) == [c \in 1..3 |-> (a[c] + 2 * b[c]) \div 3]

\* what decodeBC1 is to store for index k of a block of the colours raw0, raw1
Bc1Expected(raw0, raw1, k, useAlpha) ==
    IF raw0 <= raw1
    THEN CASE k = 0 -> Rgb565(raw0) \o <<255>>
           [] k = 1 -> Rgb565(raw1) \o <<255>>
           [] k = 2 -> Half(Rgb565(raw0), Rgb565(raw1)) \o <<255>>
           [] OTHER -> IF useAlpha THEN <<0, 0, 0, 0>> ELSE <<0, 0, 0, 255>>
    ELSE CASE k = 0 -> Rgb565(raw0) \o <<255>>
           [] k = 1 -> Rgb565(raw1) \o <<255>>
           [] k = 2 -> OneThird(Rgb565(raw0), Rgb565(raw1)) \o <<255>>
           [] OTHER -> TwoThirds(Rgb565(raw0), Rgb565(raw1)) \o <<255>>

\* C13: decodeBC1 decodes a block with color0 <= color1 (the equal values
\* too) with the palette c0, c1, half, black, index 3 being (0, 0, 0, 0) with
\* useAlpha and (0, 0, 0, 255) without it, and a block with color0 > color1
\* with the palette c0, c1, one third, two thirds, every texel of alpha 255
\* whatever useAlpha is.
C13_Bc1Palettes ==
    (bcnPc \in {"blocks", "done"} /\ bcnCall.format = "BC1") =>
        \A t \in Visited :
            TexelBytes(t) = Bc1Expected(Raw16(8 * BlockOf(t)), Raw16(8 * BlockOf(t) + 2),
                                Index2(8 * BlockOf(t), PlaceOf(t)), bcnCall.useAlpha)

C13_Witness ==
    /\ bcnPc = "done" /\ bcnResult = "ok" /\ bcnCall.format = "BC1"
    /\ bcnCall.useAlpha
    /\ bcnCall.width = 4 /\ bcnCall.height = 4
    /\ Raw16(0) = 4660 /\ Raw16(2) = 4660
    /\ Index2(0, 15) = 3 /\ TexelBytes(15) = <<0, 0, 0, 0>>
    /\ Index2(0, 0) = 1 /\ TexelBytes(0)[4] = 255

\* C14: a BC1 block whose index map is 0 decodes every texel to color0 with
\* its 5, 6 and 5 bits expanded by bit replication and alpha 255, in both
\* palette modes and with both values of useAlpha; color0 = 0xFFFF and
\* color1 = 0 give 16 texels (255, 255, 255, 255).
C14_Bc1IndexZeroIsColor0 ==
    (bcnPc \in {"blocks", "done"} /\ bcnCall.format = "BC1") =>
        \A t \in Visited :
            (\A k \in 5..8 : bcnCall.data[8 * BlockOf(t) + k] = 0) =>
                /\ TexelBytes(t) = Rgb565(Raw16(8 * BlockOf(t))) \o <<255>>
                /\ (Raw16(8 * BlockOf(t)) = 65535 /\ Raw16(8 * BlockOf(t) + 2) = 0)
                       => TexelBytes(t) = <<255, 255, 255, 255>>

C14_Witness ==
    /\ bcnPc = "done" /\ bcnResult = "ok" /\ bcnCall.format = "BC1"
    /\ bcnCall.width = 4 /\ bcnCall.height = 4
    /\ bcnCall.data = <<255, 255, 0, 0, 0, 0, 0, 0>>
    /\ bcnCall.useAlpha
    /\ rgba = [k \in 1..64 |-> 255]

\* ------------------------------------------------------------------------
\* decodeBC2, decodeBC3: the explicit alpha and the palette of four colours

\* nibble i, the least significant first, of the 8 bytes at the offset o
NibbleOf(o, i) == (bcnCall.data[o + (i \div 2) + 1] \div (16 ^ (i % 2))) % 16

\* entry k of the palette c0, c1, one third, two thirds of the colours raw0, raw1
FourColours(raw0, raw1, k) ==
    CASE k = 0 -> Rgb565(raw0)
      [] k = 1 -> Rgb565(raw1)
      [] k = 2 -> OneThird(Rgb565(raw0), Rgb565(raw1))
      [] OTHER -> TwoThirds(Rgb565(raw0), Rgb565(raw1))

\* C22: decodeBC2 gives texel i of a block the alpha (a << 4) | a, a being
\* nibble i (least significant nibble first) of the first 8 bytes of the
\* block, whatever the colour bytes are; decodeBC2 and decodeBC3 take the
\* colour of the texel from the palette c0, c1, one third, two thirds of the
\* last 8 bytes of the block, also when color0 <= color1.
C22_Bc2AlphaAndFourColours ==
    (bcnPc \in {"blocks", "done"} /\ bcnCall.format \in {"BC2", "BC3"}) =>
        \A t \in Visited :
            /\ SubSeq(TexelBytes(t), 1, 3) =
                  FourColours(Raw16(16 * BlockOf(t) + 8), Raw16(16 * BlockOf(t) + 10),
                              Index2(16 * BlockOf(t) + 8, PlaceOf(t)))
            /\ bcnCall.format = "BC2" =>
                  TexelBytes(t)[4] = 16 * NibbleOf(16 * BlockOf(t), PlaceOf(t))
                                        + NibbleOf(16 * BlockOf(t), PlaceOf(t))

\* decodeBC2 has decoded a block with color0 < color1: texel 3 has index 3,
\* is not black, and has the alpha of nibble 3
C22_Witness ==
    /\ bcnPc = "done" /\ bcnResult = "ok" /\ bcnCall.format = "BC2"
    /\ bcnCall.width >= 4
    /\ Raw16(8) < Raw16(10)
    /\ Index2(8, 3) = 3
    /\ SubSeq(TexelBytes(3), 1, 3) # <<0, 0, 0>>
    /\ NibbleOf(0, 3) = 2 /\ TexelBytes(3)[4] = 34

\* ------------------------------------------------------------------------
\* decodeBC3, decodeBC4: the alpha block and the component block

\* bit n of the bytes of the call from the offset o on
DataBit(o, n) == (bcnCall.data[o + (n \div 8) + 1] \div (2 ^ (n % 8))) % 2

\* the 3 bits at bit 16 + 3 * i of the 8 bytes at the offset o
Index3(o, i) ==
    DataBit(o, 16 + 3 * i) + 2 * DataBit(o, 17 + 3 * i) + 4 * DataBit(o, 18 + 3 * i)

\* entry k of the palette of the endpoints e0 and e1
StepOf(e0, e1, k) ==
    IF k = 0 THEN e0
    ELSE IF k = 1 THEN e1
    ELSE IF e0 > e1 THEN ((8 - k) * e0 + (k - 1) * e1) \div 7
    ELSE IF k <= 5 THEN ((6 - k) * e0 + (k - 1) * e1) \div 5
    ELSE IF k = 6 THEN 0
    ELSE 255

\* the offset of the alpha block or component block of block b, and the byte
\* of a texel that is decoded from it
BlockAt(b) == IF bcnCall.format = "BC3" THEN 16 * b ELSE 8 * b
ByteFrom(t) ==
    IF bcnCall.format = "BC3" THEN TexelBytes(t)[4] ELSE TexelBytes(t)[bcnCall.channel + 1]

\* C23: the alpha of decodeBC3 and the component of decodeBC4 of texel i of
\* a block is the entry of the palette of e0 = byte 0 and e1 = byte 1 of the
\* block at the 3 bit index taken at bit 16 + 3 * i; with e0 > e1 the palette
\* is e0, e1 and the six values interpolated by sevenths, all between e1 and
\* e0; with e0 <= e1 it is e0, e1, the four values interpolated by fifths,
\* then 0 at index 6 and 255 at index 7.
C23_AlphaAndComponentPalettes ==
    (bcnPc \in {"blocks", "done"} /\ bcnCall.format \in {"BC3", "BC4"}) =>
        \A t \in Visited :
            /\ ByteFrom(t) = StepOf(bcnCall.data[BlockAt(BlockOf(t)) + 1],
                                    bcnCall.data[BlockAt(BlockOf(t)) + 2],
                                    Index3(BlockAt(BlockOf(t)), PlaceOf(t)))
            /\ bcnCall.data[BlockAt(BlockOf(t)) + 1] > bcnCall.data[BlockAt(BlockOf(t)) + 2] =>
                  /\ bcnCall.data[BlockAt(BlockOf(t)) + 2] <= ByteFrom(t)
                  /\ ByteFrom(t) <= bcnCall.data[BlockAt(BlockOf(t)) + 1]

\* decodeBC4 has decoded into the green channel a block with e0 < e1 in
\* which a texel has index 7, one index 6 and one index 3
C23_Witness ==
    /\ bcnPc = "done" /\ bcnResult = "ok" /\ bcnCall.format = "BC4"
    /\ bcnCall.channel = 1
    /\ bcnCall.data[1] < bcnCall.data[2]
    /\ \E t \in Visited : BlockOf(t) = 0 /\ Index3(0, PlaceOf(t)) = 7 /\ ByteFrom(t) = 255
    /\ \E t \in Visited : BlockOf(t) = 0 /\ Index3(0, PlaceOf(t)) = 6 /\ ByteFrom(t) = 0
    /\ \E t \in Visited : /\ BlockOf(t) = 0 /\ Index3(0, PlaceOf(t)) = 3
                           /\ ByteFrom(t) > bcnCall.data[1] /\ ByteFrom(t) < bcnCall.data[2]

\* ------------------------------------------------------------------------
\* the image decoders: what is stored where

\* the one visit texel t of an image of the width is to get
VisitOf(t, width) ==
    <<((t \div width) \div 4) * ((width + 3) \div 4) + ((t % width) \div 4),
      ((t \div width) % 4) * 4 + ((t % width) % 4)>>

\* C15 as it stands: a decoder that returns, returns width * height * 4
\* bytes, each stored exactly once, texel (px, py) from the block
\* (py div 4) * ceil(width / 4) + (px div 4) at the place
\* (py mod 4) * 4 + (px mod 4) and from no other.
C15_EveryByteStoredOnce ==
    bcnResult = "ok" =>
        /\ Len(rgba) = bcnCall.width * bcnCall.height * 4
        /\ \A k \in 1..Len(rgba) : bcnLog.stores[k] = 1
        /\ \A t \in 0..(bcnCall.width * bcnCall.height - 1) :
              bcnLog.visits[t + 1] = <<VisitOf(t, bcnCall.width)>>

\* C15, amended: a decoder that returns, returns width * height * 4 bytes,
\* every texel (px, py) stored in one visit only, that of the block
\* (py div 4) * ceil(width / 4) + (px div 4) at the place
\* (py mod 4) * 4 + (px mod 4); the visit stores each of the four bytes
\* once, but for decodeBC4, which stores the byte of its channel twice.
C15_EveryTexelStoredInOneVisit ==
    bcnResult = "ok" =>
        /\ Len(rgba) = bcnCall.width * bcnCall.height * 4
        /\ \A k \in 1..Len(rgba) :
              bcnLog.stores[k] =
                  IF bcnCall.format = "BC4" /\ (k - 1) % 4 = bcnCall.channel THEN 2 ELSE 1
        /\ \A t \in 0..(bcnCall.width * bcnCall.height - 1) :
              /\ bcnLog.visits[t + 1] = <<VisitOf(t, bcnCall.width)>>
              /\ TexelBytes(t) = BlockTexel(bcnCall,
                     BlockBytes(bcnCall.format) * VisitOf(t, bcnCall.width)[1],
                     VisitOf(t, bcnCall.width)[2])

C15_Witness ==
    /\ bcnResult = "ok" /\ bcnCall.format = "BC4" /\ bcnCall.channel = 1
    /\ bcnCall.width = MaxWidth /\ bcnCall.height = MaxHeight
    /\ bcn.offset = 8 * Ceil4(MaxWidth) * Ceil4(MaxHeight)

\* ------------------------------------------------------------------------
\* Edds (Edds.ts)

MaxMips == 2
MaxReads == 1

\* a FourCC as the character codes of its four characters (fourCcToInt and
\* intToFourCc, lines 66-85, pack and unpack them)
FourCC_DXT1 == <<68, 88, 84, 49>>
FourCC_DXT2 == <<68, 88, 84, 50>>
FourCC_DXT3 == <<68, 88, 84, 51>>
FourCC_DXT4 == <<68, 88, 84, 52>>
FourCC_DXT5 == <<68, 88, 84, 53>>
FourCC_ATI1 == <<65, 84, 73, 49>>
FourCC_ATI2 == <<65, 84, 73, 50>>
FourCC_BC4U == <<66, 67, 52, 85>>
FourCC_BC4S == <<66, 67, 52, 83>>
FourCC_BC5U == <<66, 67, 53, 85>>
FourCC_BC5S == <<66, 67, 53, 83>>
FOURCC_DX10 == <<68, 88, 49, 48>>

\* String.prototype.toUpperCase on ASCII character codes
toUpperCase(text) ==
    [k \in 1..Len(text) |-> IF text[k] >= 97 /\ text[k] <= 122 THEN text[k] - 32 ELSE text[k]]

\* mapDxgiFormat, lines 242-265
mapDxgiFormat(dxgiFormat) ==
    CASE dxgiFormat = 71 -> "BC1"
      [] dxgiFormat = 74 -> "BC2"
      [] dxgiFormat = 77 -> "BC3"
      [] dxgiFormat = 80 -> "BC4"
      [] dxgiFormat = 83 -> "BC5"
      [] dxgiFormat = 95 -> "BC6"
      [] dxgiFormat = 98 -> "BC7"
      [] dxgiFormat = 87 -> "BGRA8"
      [] dxgiFormat = 28 -> "RGBA8"
      [] OTHER -> "UNKNOWN"

\* detectFormat, lines 195-214: the format of a FourCC in upper case
FormatOfFourCC(fourCCStr) ==
    CASE fourCCStr = FourCC_DXT1 -> "BC1"
      [] fourCCStr \in {FourCC_DXT2, FourCC_DXT3} -> "BC2"
      [] fourCCStr \in {FourCC_DXT4, FourCC_DXT5} -> "BC3"
      [] fourCCStr \in {FourCC_ATI1, FourCC_BC4U, FourCC_BC4S} -> "BC4"
      [] fourCCStr \in {FourCC_ATI2, FourCC_BC5U, FourCC_BC5S} -> "BC5"
      [] OTHER -> "UNKNOWN"

\* detectFormat, lines 218-227: the masks of a pixel format are kept as the
\* byte each of rMask, gMask, bMask, aMask selects (0xff is byte 0)
FormatOfMasks(pf) ==
    IF "RGB" \in pf.flags /\ "ALPHA_PIXELS" \in pf.flags /\ pf.rgbBitCount = 32
       /\ pf.masks = <<0, 1, 2, 3>>
    THEN [format |-> "RGBA8", details |-> <<"RGBA8">>]
    ELSE IF "RGB" \in pf.flags /\ "ALPHA_PIXELS" \in pf.flags /\ pf.rgbBitCount = 32
            /\ pf.masks = <<2, 1, 0, 3>>
    THEN [format |-> "BGRA8", details |-> <<"BGRA8">>]
    ELSE IF "LUMINANCE" \in pf.flags /\ pf.rgbBitCount = 8
    THEN [format |-> "RGBA8", details |-> <<"LUMINANCE8">>]
    ELSE [format |-> "UNKNOWN", details |-> <<"UNKNOWN">>]

\* lines 147-148: readDdsHeader returns a dx10 header
HasDx10(pf) == "FOURCC" \in pf.flags /\ pf.fourCC = FOURCC_DX10

\* detectFormat, lines 185-240; details is kept as the DXGI number, the
\* FourCC in upper case or the name
detectFormat(pf) ==
    IF HasDx10(pf)
    THEN [format |-> mapDxgiFormat(pf.dxgiFormat), details |-> <<"DXGI", pf.dxgiFormat>>]
    ELSE IF "FOURCC" \in pf.flags
    THEN [format |-> FormatOfFourCC(toUpperCase(pf.fourCC)),
          details |-> toUpperCase(pf.fourCC)]
    ELSE FormatOfMasks(pf)

\* mipDimension, lines 161-163: Math.max(1, base >> level)
mipDimension(base, level) == Max(1, base \div (2 ^ level))

\* expectedDataLength, lines 165-183; Undef is null
expectedDataLength(format, width, height) ==
    CASE format \in {"BC1", "BC4"} ->
            Max(1, Ceil4(width)) * Max(1, Ceil4(height)) * 8
      [] format \in {"BC2", "BC3", "BC5", "BC6", "BC7"} ->
            Max(1, Ceil4(width)) * Max(1, Ceil4(height)) * 16
      [] format \in {"RGBA8", "BGRA8"} -> width * height * 4
      [] OTHER -> Undef

\* convertToRgba with BC5 handed to the BC3 decoder
convertToRgbaBc5AsBc3(mip, format) ==
    CASE format \in {"BC1", "BC2", "BC3", "BC5", "BC7"} ->
            [out |-> "pixels", length |-> mip.width * mip.height * 4]
      [] format = "BC6" -> [out |-> "Error", length |-> 0]
      [] format \in {"RGBA8", "BGRA8"} -> [out |-> "pixels", length |-> mip.length]
      [] OTHER -> [out |-> "Error", length |-> 0]

\* convertToRgba, lines 267-296: what it returns (the length of the buffer)
\* or throws; the data of a mip has the length expectedDataLength gives, so
\* that the BC decoders return width * height * 4 bytes
convertToRgba(mip, format) ==
    CASE format \in {"BC1", "BC2", "BC3", "BC7"} ->
            [out |-> "pixels", length |-> mip.width * mip.height * 4]
      [] format = "BC6" -> [out |-> "Error", length |-> 0]
      [] format \in {"RGBA8", "BGRA8"} -> [out |-> "pixels", length |-> mip.length]
      [] OTHER -> [out |-> "Error", length |-> 0]

\* an entry of mipmaps that has not been assigned (new Array(mipCount))
MipHole == [hole |-> TRUE, width |-> 0, height |-> 0, length |-> 0, compression |-> "none"]

\* line 309: the number of mip maps of the file
MipCount(file) == IF file.capsMipmap /\ file.mipMapCount > 0 THEN file.mipMapCount ELSE 1

\* lines 320-331: the first block header that is neither COPY nor LZ4
BadMagic(file) == \E i \in 1..MipCount(file) : file.blocks[i].kind \notin {"COPY", "LZ4 "}

\* lines 364: mipmaps[mipLevel] = { width, height, data, compression }
SetMip(mipmaps, mipLevel, mip) ==
    SubSeq(mipmaps, 1, mipLevel) \o <<mip>> \o SubSeq(mipmaps, mipLevel + 2, Len(mipmaps))

\* lines 358-361 without the check of the length
LengthRefusedNever(expected, length) == FALSE

\* lines 358-361
LengthRefused(expected, length) == expected # Undef /\ expected # length

\* lines 349-365: the loop over the mip maps from mipIdx on; a block whose
\* data cannot be read (readBytes, decompressLz4Block) has the length Undef
RECURSIVE ReadMips(_, _, _, _)
ReadMips(mipmaps, file, format, mipIdx) ==
    IF mipIdx = MipCount(file) THEN [mipmaps |-> mipmaps, out |-> "ok"]
    ELSE IF file.blocks[mipIdx + 1].length = Undef
    THEN [mipmaps |-> mipmaps, out |-> "Error"]
    ELSE IF LengthRefused(
              expectedDataLength(format,
                  mipDimension(file.width, MipCount(file) - mipIdx - 1),
                  mipDimension(file.height, MipCount(file) - mipIdx - 1)),
              file.blocks[mipIdx + 1].length)
    THEN [mipmaps |-> mipmaps, out |-> "Error"]
    ELSE ReadMips(
            SetMip(mipmaps, MipCount(file) - mipIdx - 1,
                [hole |-> FALSE,
                 width |-> mipDimension(file.width, MipCount(file) - mipIdx - 1),
                 height |-> mipDimension(file.height, MipCount(file) - mipIdx - 1),
                 length |-> file.blocks[mipIdx + 1].length,
                 compression |-> file.blocks[mipIdx + 1].kind]),
            file, format, mipIdx + 1)

\* read(), lines 304-365: the fields after the call
AfterRead(obj, file) ==
    IF file.fault # "none" THEN obj
    ELSE IF BadMagic(file)
    THEN [obj EXCEPT !.width = file.width, !.height = file.height]
    ELSE [width |-> file.width, height |-> file.height,
          format |-> detectFormat(file.pixelFormat).format,
          formatDetails |-> detectFormat(file.pixelFormat).details,
          mipmaps |-> ReadMips([k \in 1..MipCount(file) |-> MipHole], file,
                               detectFormat(file.pixelFormat).format, 0).mipmaps]

\* read(), lines 304-365: "ok" or "Error"
ReadOutcome(file) ==
    IF file.fault # "none" \/ BadMagic(file) THEN "Error"
    ELSE ReadMips([k \in 1..MipCount(file) |-> MipHole], file,
                  detectFormat(file.pixelFormat).format, 0).out

\* the pixel formats of the headers read
EddsFourCCs ==
    {FourCC_DXT1, FourCC_DXT2, FourCC_DXT3, FourCC_DXT4, FourCC_DXT5, FourCC_ATI1,
     FourCC_ATI2, FourCC_BC4U, FourCC_BC4S, FourCC_BC5U, FourCC_BC5S,
     <<98, 99, 53, 117>>, <<88, 88, 88, 88>>}

EddsDxgiFormats == {71, 74, 77, 80, 83, 95, 98, 87, 28, 0}

EddsPixelFormats ==
    {[flags |-> {"FOURCC"}, fourCC |-> c, rgbBitCount |-> 0, masks |-> <<0, 0, 0, 0>>,
      dxgiFormat |-> 0] : c \in EddsFourCCs}
    \cup {[flags |-> {"FOURCC"}, fourCC |-> FOURCC_DX10, rgbBitCount |-> 0,
           masks |-> <<0, 0, 0, 0>>, dxgiFormat |-> g] : g \in EddsDxgiFormats}
    \cup {[flags |-> fl, fourCC |-> <<0, 0, 0, 0>>, rgbBitCount |-> 32, masks |-> m,
           dxgiFormat |-> 0] :
             fl \in {{"RGB", "ALPHA_PIXELS"}, {"RGB"}},
             m \in {<<0, 1, 2, 3>>, <<2, 1, 0, 3>>, <<1, 0, 2, 3>>}}
    \cup {[flags |-> {"LUMINANCE"}, fourCC |-> <<0, 0, 0, 0>>, rgbBitCount |-> b,
           masks |-> <<0, 0, 0, 0>>, dxgiFormat |-> 0] : b \in {8, 16}}

\* the blocks of a file: the magic of the block header, and the length of
\* the data read or decompressed for it (Undef when that read throws)
EddsBlocks ==
    {[kind |-> "COPY", length |-> 8], [kind |-> "LZ4 ", length |-> 16],
     [kind |-> "LZ4 ", length |-> Undef], [kind |-> "JUNK", length |-> Undef]}

\* the files read: a fault is a wrong magic, a wrong header size, a
\* reserved2 that is not 0, a cube map or a header cut short
EddsFiles ==
    {[fault |-> "header", width |-> 0, height |-> 0, capsMipmap |-> FALSE,
      mipMapCount |-> 0, pixelFormat |-> <<>>, blocks |-> <<>>]}
    \cup UNION {
        {[fault |-> "none", width |-> 2, height |-> 2, capsMipmap |-> TRUE,
          mipMapCount |-> n, pixelFormat |-> pf, blocks |-> b] :
            pf \in EddsPixelFormats, b \in BlockSeqs({<<x>> : x \in EddsBlocks}, Max(n, 1))} :
        n \in 0..MaxMips}

\* new Edds(), lines 298-303
EddsInit ==
    /\ CodecIdle
    /\ Bc7Idle
    /\ BcnIdle
    /\ calls = NoCalls
    /\ edds = [width |-> 0, height |-> 0, format |-> "UNKNOWN", formatDetails |-> <<>>,
               mipmaps |-> <<>>]
    /\ eddsResult = [op |-> "new", out |-> "ok", length |-> 0, reads |-> 0]

\* read(buffer), lines 304-365
EddsRead ==
    /\ eddsResult.reads < MaxReads
    /\ \E file \in EddsFiles :
          /\ edds' = AfterRead(edds, file)
          /\ eddsResult' = [op |-> "read", out |-> ReadOutcome(file), length |-> 0,
                            reads |-> eddsResult.reads + 1]
    /\ UNCHANGED notEddsVars

\* getRgbaPixelData(mipLevel), lines 367-377
getRgbaPixelData(obj, mipLevel) ==
    IF Len(obj.mipmaps) = 0 THEN [out |-> "Error", length |-> 0]
    ELSE IF mipLevel < 0 \/ mipLevel >= Len(obj.mipmaps)
    THEN [out |-> "RangeError", length |-> 0]
    ELSE IF obj.mipmaps[mipLevel + 1].hole THEN [out |-> "TypeError", length |-> 0]
    ELSE convertToRgba(obj.mipmaps[mipLevel + 1], obj.format)

EddsGetRgbaPixelData ==
    /\ \E mipLevel \in (0 - 1)..MaxMips :
          eddsResult' = [op |-> "getRgbaPixelData",
                         out |-> getRgbaPixelData(edds, mipLevel).out,
                         length |-> getRgbaPixelData(edds, mipLevel).length,
                         reads |-> eddsResult.reads]
    /\ UNCHANGED edds
    /\ UNCHANGED notEddsVars

EddsNext ==
    \/ EddsRead
    \/ EddsGetRgbaPixelData

SpecEdds == EddsInit /\ [][EddsNext]_vars

\* ------------------------------------------------------------------------
\* Edds.getRgbaPixelData: the formats without a decoder

\* C17: a call of getRgbaPixelData on a texture whose format was detected
\* as BC5 or BC6 ends in an error, whatever the mip level asked for is; it
\* never returns pixels.
C17_Bc5Bc6AlwaysThrow ==
    (eddsResult.op = "getRgbaPixelData" /\ edds.format \in {"BC5", "BC6"}) =>
        /\ eddsResult.out \in {"Error", "RangeError", "TypeError"}
        /\ eddsResult.out # "pixels"

C17_Witness ==
    /\ eddsResult.op = "getRgbaPixelData" /\ edds.format = "BC5"
    /\ Len(edds.mipmaps) = 2
    /\ ~edds.mipmaps[1].hole /\ ~edds.mipmaps[2].hole
    /\ eddsResult.out = "Error"

\* ------------------------------------------------------------------------
\* A caller of the decoders: a call, then possibly a call of the same decoder
\* on other bytes, then the first call once more with the same arguments.  In
\* the program nothing of a decoder outlives a call: the locals belong to the
\* call and LZO.decompress makes a new LZO object.  The variables of the model
\* are not made anew: a call finds in them what the call before left, and
\* starts as the code starts, by the assignments of LzssStart, Lz4Start,
\* LzoStart and BcnStart.

\* the image sizes the caller decodes
CallSizes == {<<1, 1>>, <<3, 2>>, <<5, 1>>, <<4, 5>>}

\* the sizes the caller expects of lzoDecompress
CallExpectedSizes == {1, 4, 5, 6}

\* the decoder of the first call
Active ==
    CASE lzssPc # "idle" -> "lzss"
      [] lz4Pc # "idle" -> "lz4"
      [] lzoPc # "idle" -> "lzo"
      [] OTHER -> "bcn"

\* where the last call of a decoder is
PcOf(who) ==
    CASE who = "lzss" -> lzssPc
      [] who = "lz4" -> lz4Pc
      [] who = "lzo" -> lzoPc
      [] OTHER -> bcnPc

\* the arguments of the call of a decoder; decompressLz4Block is passed the
\* reader, that is its buffer and its position
ArgsOf(who) ==
    CASE who = "lzss" -> [input |-> input, inputOffset |-> inputOffset,
                          expectedSize |-> declaredSize,
                          useSignedChecksum |-> useSignedChecksum]
      [] who = "lz4" -> [input |-> rdBuffer, pos |-> startPos, declaredSize |-> blockSize4]
      [] who = "lzo" -> [input |-> lzoSrc, expectedSize |-> lzoExpectedSize,
                         withSize |-> lzoWithSize]
      [] OTHER -> [input |-> bcnCall.data, call |-> bcnCall]

\* the input bytes a decoder is working on
InputOf(who) ==
    CASE who = "lzss" -> input
      [] who = "lz4" -> rdBuffer
      [] who = "lzo" -> lzoSrc
      [] OTHER -> bcnCall.data

\* what the caller has of a finished call: the way it ended, the bytes
\* returned, and the count of bytes read where one is returned (for
\* decompressLz4Block, the position it left the reader at)
OutcomeOf(who) ==
    CASE who = "lzss" -> [out |-> lzssResult,
                          data |-> IF lzssResult \in {"ok", "empty"} THEN dst ELSE <<>>,
                          bytesRead |-> IF lzssResult \in {"ok", "empty"} THEN bytesRead ELSE 0]
      [] who = "lz4" -> [out |-> lz4Result,
                         data |-> IF lz4Result = "ok" THEN target ELSE <<>>,
                         bytesRead |-> rdPos]
      [] who = "lzo" -> [out |-> lzoResult,
                         data |-> IF lzoResult = "ok" THEN lzoReturned.data ELSE <<>>,
                         bytesRead |-> IF lzoResult = "ok" /\ lzoWithSize
                                       THEN lzoReturned.bytesRead ELSE 0]
      [] OTHER -> [out |-> bcnResult,
                   data |-> IF bcnResult = "ok" THEN rgba ELSE <<>>,
                   bytesRead |-> 0]

\* what the caller keeps of its first call
Kept ==
    IF calls.n = 1
    THEN [n |-> 1, who |-> Active, between |-> "none",
          args |-> ArgsOf(Active), first |-> OutcomeOf(Active)]
    ELSE calls

\* the first call, a call of who, has returned or thrown, and no other call
\* was made yet
CanCallBetween(who) == calls.n = 1 /\ Active = who /\ PcOf(who) = "done"

\* the caller can repeat its first call, which was a call of who
CanCallAgain(who) ==
    \/ calls.n = 1 /\ Active = who /\ PcOf(who) = "done"
    \/ calls.n = 2 /\ calls.who = who /\ PcOf(calls.between) = "done"

\* the calls made in between: each decodes a few bytes
LzssOther ==
    [input |-> <<255, 65, 66, 131, 0, 0, 0>>, inputOffset |-> 0, expectedSize |-> 2,
     useSignedChecksum |-> FALSE]

Lz4Other ==
    [input |-> <<2, 0, 0, 0, 3, 0, 0, 128, 32, 65, 66>>, pos |-> 0, declaredSize |-> 11]

LzoOther ==
    [input |-> <<18, 65, 17, 0, 0>>, expectedSize |-> 1, withSize |-> TRUE]

BcnOther ==
    [format |-> "BC1", width |-> 1, height |-> 1, useAlpha |-> FALSE, channel |-> 0,
     data |-> <<0, 248, 31, 0, 228, 27, 78, 177>>]

\* lzssDecompress(input, inputOffset, expectedSize, useSignedChecksum) is
\* entered (Lzss.ts lines 16-21): the parameters are bound, nothing else is
LzssCall(a) ==
    /\ input' = a.input /\ inputEnd' = TRUE
    /\ inputOffset' = a.inputOffset
    /\ declaredSize' = a.expectedSize /\ expectedSize' = a.expectedSize
    /\ useSignedChecksum' = a.useSignedChecksum
    /\ lzssPc' = "start" /\ lzssResult' = "none" /\ bytesRead' = 0
    /\ UNCHANGED <<inPos, iDst, dst, calculatedChecksum, r, buffer, flags, lzssLog>>

\* decompressLz4Block(reader, declaredSize) is entered (Lz4.ts line 11) with
\* the reader at pos
Lz4Call(a) ==
    /\ rdBuffer' = a.input /\ rdEnd' = TRUE
    /\ rdPos' = a.pos
    /\ blockSize4' = a.declaredSize
    /\ lz4Pc' = "start" /\ lz4Result' = "none"
    /\ UNCHANGED <<startPos, targetSize, target, targetIdx, dict, dictSize,
                   chunkFlags, lz4Log>>

\* lzoDecompress(src, expectedSize) or lzoDecompressWithSize(src, expectedSize)
\* is entered (Lzo.ts lines 280, 294)
LzoCall(a) ==
    /\ lzoSrc' = a.input
    /\ lzoExpectedSize' = a.expectedSize
    /\ lzoWithSize' = a.withSize
    /\ lzoPc' = "start" /\ lzoResult' = "none" /\ lzoReturned' = <<>>
    /\ UNCHANGED lzo

\* decodeBC1(data, width, height, useAlpha) or one of the other image
\* decoders is entered
BcnCall(c) ==
    /\ bcnCall' = c
    /\ bcnPc' = "start" /\ bcnResult' = "none"
    /\ UNCHANGED <<bcn, rgba, bcnLog>>

LzssBetween ==
    /\ CanCallBetween("lzss")
    /\ calls' = [Kept EXCEPT !.n = 2, !.between = "lzss"]
    /\ LzssCall(LzssOther)
    /\ UNCHANGED <<lz4Vars, lzoVars, imgVars>>

Lz4Between ==
    /\ CanCallBetween("lz4")
    /\ calls' = [Kept EXCEPT !.n = 2, !.between = "lz4"]
    /\ Lz4Call(Lz4Other)
    /\ UNCHANGED <<lzssVars, lzoVars, imgVars>>

LzoBetween ==
    /\ CanCallBetween("lzo")
    /\ calls' = [Kept EXCEPT !.n = 2, !.between = "lzo"]
    /\ LzoCall(LzoOther)
    /\ UNCHANGED <<lzssVars, lz4Vars, imgVars>>

BcnBetween ==
    /\ CanCallBetween("bcn")
    /\ calls' = [Kept EXCEPT !.n = 2, !.between = "bcn"]
    /\ BcnCall(BcnOther)
    /\ UNCHANGED <<codecVars, bc7Vars, eddsVars>>

LzssAgain ==
    /\ CanCallAgain("lzss")
    /\ calls' = [Kept EXCEPT !.n = 3]
    /\ LzssCall(Kept.args)
    /\ UNCHANGED <<lz4Vars, lzoVars, imgVars>>

Lz4Again ==
    /\ CanCallAgain("lz4")
    /\ calls' = [Kept EXCEPT !.n = 3]
    /\ Lz4Call(Kept.args)
    /\ UNCHANGED <<lzssVars, lzoVars, imgVars>>

LzoAgain ==
    /\ CanCallAgain("lzo")
    /\ calls' = [Kept EXCEPT !.n = 3]
    /\ LzoCall(Kept.args)
    /\ UNCHANGED <<lzssVars, lz4Vars, imgVars>>

BcnAgain ==
    /\ CanCallAgain("bcn")
    /\ calls' = [Kept EXCEPT !.n = 3]
    /\ BcnCall(Kept.args.call)
    /\ UNCHANGED <<codecVars, bc7Vars, eddsVars>>

CallsInit ==
    \/ LzssInit
    \/ Lz4Init
    \/ LzoInit /\ lzoExpectedSize \in CallExpectedSizes
    \/ BcnInit /\ <<bcnCall.width, bcnCall.height>> \in CallSizes

CallsNext ==
    \/ LzssNext
    \/ Lz4Next
    \/ LzoNext
    \/ BcnNext
    \/ LzssBetween
    \/ Lz4Between
    \/ LzoBetween
    \/ BcnBetween
    \/ LzssAgain
    \/ Lz4Again
    \/ LzoAgain
    \/ BcnAgain

SpecCalls == CallsInit /\ [][CallsNext]_vars

\* C16: when a decoder is called a second time on the same input bytes with
\* the same parameters, after the first call and possibly a call of the same
\* decoder on other bytes, the input bytes stay as they were passed all
\* through the second call, and the second call ends as the first did: the
\* same bytes returned and the same count of bytes read, or the same failure.
C16_SecondCallGivesTheSame ==
    calls.n = 3 =>
        /\ InputOf(calls.who) = calls.args.input
        /\ PcOf(calls.who) = "done" => OutcomeOf(calls.who) = calls.first

\* a second call of lzssDecompress has returned some bytes, after a call of
\* lzssDecompress on other bytes that came between the two
C16_Witness ==
    /\ calls.n = 3
    /\ calls.who = "lzss"
    /\ calls.between = "lzss"
    /\ lzssPc = "done"
    /\ calls.first.out = "ok"
    /\ Len(calls.first.data) > 1
    /\ dst # <<65, 66>>

====
